---------------------------- MODULE Spec2Model ----------------------------
(***************************************************************************)
(* State-machine model of the hpkvfs-cloud API routes: the chunked file    *)
(* layer kept in a flat key-value store (HPKV).  Every route handler is a  *)
(* sequence of store calls; one action of the model is one store call of   *)
(* one request together with the local computation that follows it up to   *)
(* the next await.  Where the handler reads the clock after a call, the    *)
(* answer of the store and its arrival at the handler are two actions:     *)
(* calls of other requests and a tick of the clock fall in between.        *)
(*                                                                         *)
(* Keys and paths are sequences of one-character strings, buffers are      *)
(* sequences of bytes (0..255), JavaScript strings are sequences of UTF-16 *)
(* code units.                                                             *)
(***************************************************************************)
EXTENDS Integers, Sequences, FiniteSets, TLC

VARIABLES
    store,    \* the HPKV store: a function from the keys present to their values
    slot,     \* slot[s]: the request running in slot s and its local variables
    now,      \* the clock, in seconds (Math.floor(Date.now() / 1000))
    nops,     \* requests started so far
    faults    \* store calls that have failed so far

vars == <<store, slot, now, nops, faults>>

-----------------------------------------------------------------------------
(* Bounds of the model *)

\* requests per behaviour
MaxOps == 2
\* failing store calls per behaviour
MaxFaults == 1
\* offsets of a request into a chunk: 0..(MaxOffset - 1)
MaxOffset == 2
\* longest data of a round trip
MaxLen == 4
\* keys per page of the store's /list
PageSize == 2
\* Store calls that may fail in the runs of delete alone
DeleteFaults == 2
\* the last second of the clock
MaxClock == 2

-----------------------------------------------------------------------------
(* src/lib/constants.ts *)

METADATA_SUFFIX == <<".", "_", "_", "m", "e", "t", "a", "_", "_">>
CHUNK_SUFFIX == <<".", "c", "h", "u", "n", "k">>
MAX_CHUNK_SIZE == 3000
DEFAULT_DIR_MODE == 16877
DEFAULT_FILE_MODE == 33188

\* (mode & 0o170000) === 0o040000: bits 12..15 of the mode are 0100
IsDirMode(mode) == (mode \div 4096) % 16 = 4

Max(a, b) == IF a >= b THEN a ELSE b
Min(a, b) == IF a <= b THEN a ELSE b
\* Math.ceil(a / b) for a >= 0, b > 0
Ceil(a, b) == (a + b - 1) \div b

-----------------------------------------------------------------------------
(* Buffer <-> string conversions (Node's Buffer, WHATWG UTF-8) *)

IsCont(x) == x >= 128 /\ x <= 191
\* The first byte of a sequence of two to four bytes, and the length it announces
IsLead(x) == x >= 194 /\ x <= 244
Need(x) == IF x <= 223 THEN 2 ELSE IF x <= 239 THEN 3 ELSE 4

\* The bytes, from the lead byte at position i on, of the longest prefix of
\* a well-formed sequence that stands at i (the second byte of a sequence
\* has a narrower range after E0, ED, F0 and F4)
Span(b, i) ==
    LET b0 == b[i]
        b1 == IF i + 1 <= Len(b) THEN b[i + 1] ELSE -1
        b2 == IF i + 2 <= Len(b) THEN b[i + 2] ELSE -1
        b3 == IF i + 3 <= Len(b) THEN b[i + 3] ELSE -1
        lo == IF b0 = 224 THEN 160 ELSE IF b0 = 240 THEN 144 ELSE 128
        hi == IF b0 = 237 THEN 159 ELSE IF b0 = 244 THEN 143 ELSE 191
    IN IF ~(b1 >= lo /\ b1 <= hi) THEN 1
       ELSE IF Need(b0) = 2 THEN 2
       ELSE IF ~IsCont(b2) THEN 2
       ELSE IF Need(b0) = 3 THEN 3
       ELSE IF ~IsCont(b3) THEN 3
       ELSE 4

\* The code point of the well-formed sequence that starts at position i
CodePoint(b, i) ==
    IF Need(b[i]) = 2 THEN (b[i] - 192) * 64 + (b[i + 1] - 128)
    ELSE IF Need(b[i]) = 3
    THEN (b[i] - 224) * 4096 + (b[i + 1] - 128) * 64 + (b[i + 2] - 128)
    ELSE (b[i] - 240) * 262144 + (b[i + 1] - 128) * 4096 + (b[i + 2] - 128) * 64
           + (b[i + 3] - 128)

\* The code unit that the byte at position i gives, -1 when it gives none:
\* a byte below 128 is itself; the lead byte of a whole sequence gives its
\* code point, or the high surrogate of a code point above U+FFFF, whose
\* second byte gives the low surrogate; the lead byte of a sequence cut short
\* gives U+FFFD for the whole maximal ill-formed subsequence; a byte that
\* belongs to no sequence gives U+FFFD
Utf8Unit(b, i) ==
    LET x == b[i]
    IN IF x < 128 THEN x
       ELSE IF IsLead(x)
       THEN IF Span(b, i) < Need(x) THEN 65533
            ELSE IF Need(x) = 4 THEN 55296 + ((CodePoint(b, i) - 65536) \div 1024)
            ELSE CodePoint(b, i)
       ELSE IF IsCont(x) /\ \E k \in 1..3 : i - k >= 1 /\ IsLead(b[i - k]) /\ Span(b, i - k) > k
       THEN IF IsLead(b[i - 1]) /\ Need(b[i - 1]) = 4 /\ Span(b, i - 1) = 4
            THEN 56320 + ((CodePoint(b, i - 1) - 65536) % 1024)
            ELSE -1
       ELSE 65533

\* Buffer.prototype.toString('utf8'), newChunk.toString('utf8'): every
\* maximal ill-formed subsequence becomes one U+FFFD, a code point above
\* U+FFFF becomes a surrogate pair
Utf8Decode(b) ==
    IF b \in Seq(0..127) THEN b
    ELSE SelectSeq([i \in 1..Len(b) |-> Utf8Unit(b, i)], LAMBDA x : x >= 0)

\* The k-th byte (k in 0..3) that the code unit at position i gives, -1
\* when it gives none: a surrogate pair gives four bytes at its high
\* surrogate, a lone surrogate gives EF BF BD
Utf8Byte(u, i, k) ==
    LET c == u[i]
        d == IF i + 1 <= Len(u) THEN u[i + 1] ELSE -1
        p == IF i > 1 THEN u[i - 1] ELSE -1
        cp == 65536 + (c - 55296) * 1024 + (d - 56320)
        IsHigh(x) == x >= 55296 /\ x <= 56319
        IsLow(x) == x >= 56320 /\ x <= 57343
    IN IF c < 128 THEN (IF k = 0 THEN c ELSE -1)
       ELSE IF c < 2048
       THEN (IF k = 0 THEN 192 + (c \div 64) ELSE IF k = 1 THEN 128 + (c % 64) ELSE -1)
       ELSE IF IsHigh(c) /\ IsLow(d)
       THEN (IF k = 0 THEN 240 + (cp \div 262144)
             ELSE IF k = 1 THEN 128 + ((cp \div 4096) % 64)
             ELSE IF k = 2 THEN 128 + ((cp \div 64) % 64)
             ELSE 128 + (cp % 64))
       ELSE IF IsLow(c) /\ IsHigh(p) THEN -1
       ELSE IF IsHigh(c) \/ IsLow(c)
       THEN (IF k = 0 THEN 239 ELSE IF k = 1 THEN 191 ELSE IF k = 2 THEN 189 ELSE -1)
       ELSE (IF k = 0 THEN 224 + (c \div 4096)
             ELSE IF k = 1 THEN 128 + ((c \div 64) % 64)
             ELSE IF k = 2 THEN 128 + (c % 64)
             ELSE -1)

\* Buffer.from(str, 'utf8'), and the body of new Response(str)
Utf8Encode(u) ==
    IF u \in Seq(0..127) THEN u
    ELSE SelectSeq([j \in 1..(4 * Len(u)) |->
                      Utf8Byte(u, (j - 1) \div 4 + 1, (j - 1) % 4)],
                   LAMBDA x : x >= 0)

\* Buffer.from(arrayBuffer).toString('base64'): the body is a sequence of
\* sextets 0..63, padded with 64 ('=') to a multiple of four.
Base64Encode(b) ==
    [j \in 1..(4 * ((Len(b) + 2) \div 3)) |->
        LET g == (j - 1) \div 4
            r == (j - 1) % 4
            x1 == b[3 * g + 1]
            x2 == IF 3 * g + 2 <= Len(b) THEN b[3 * g + 2] ELSE 0
            x3 == IF 3 * g + 3 <= Len(b) THEN b[3 * g + 3] ELSE 0
        IN IF r = 0 THEN x1 \div 4
           ELSE IF r = 1 THEN (x1 % 4) * 16 + (x2 \div 16)
           ELSE IF r = 2
           THEN (IF 3 * g + 2 <= Len(b) THEN (x2 % 16) * 4 + (x3 \div 64) ELSE 64)
           ELSE (IF 3 * g + 3 <= Len(b) THEN x3 % 64 ELSE 64)]

\* The sextets of a body before its first '='
Sextets(t) ==
    LET pads == SelectSeq([k \in 1..Len(t) |-> IF t[k] = 64 THEN k ELSE 0],
                          LAMBDA k : k > 0)
    IN IF pads = <<>> THEN t ELSE SubSeq(t, 1, pads[1] - 1)

\* Buffer.from(writeDataB64, 'base64'): three bytes of every four sextets,
\* one or two of a last group of two or three
Base64Decode(t) ==
    LET x == Sextets(t)
    IN [j \in 1..((Len(x) * 6) \div 8) |->
          LET g == (j - 1) \div 3
              r == (j - 1) % 3
          IN IF r = 0 THEN x[4 * g + 1] * 4 + (x[4 * g + 2] \div 16)
             ELSE IF r = 1 THEN (x[4 * g + 2] % 16) * 16 + (x[4 * g + 3] \div 4)
             ELSE (x[4 * g + 3] % 4) * 64 + x[4 * g + 4]]

-----------------------------------------------------------------------------
(* Paths and keys *)

\* An absent or empty path parameter (!path)
NoPath == <<>>
Root == <<"/">>
PathF == <<"/", "f">>
PathD == <<"/", "d">>
PathDG == <<"/", "d", "/", "g">>

Digits == <<"0", "1", "2", "3", "4", "5", "6", "7", "8", "9">>

\* A variant of the index's digits that keeps the last digit only
DecimalLastDigit(n) == <<Digits[(n % 10) + 1]>>

\* `${chunkIndex}`: decimal, no leading zeros
RECURSIVE Decimal(_)
Decimal(n) ==
    IF n < 10 THEN <<Digits[n + 1]>> ELSE Decimal(n \div 10) \o <<Digits[(n % 10) + 1]>>

\* `${path}${METADATA_SUFFIX}` (write, read: no special case for the root)
MetadataKey(path) == path \o METADATA_SUFFIX

\* path === "/" ? "/.__meta__" : `${path}${METADATA_SUFFIX}` (delete, mkdir, metadata)
MetadataKeyRoot(path) ==
    IF path = Root THEN <<"/">> \o METADATA_SUFFIX ELSE path \o METADATA_SUFFIX

\* `${path}${CHUNK_SUFFIX}${chunkIndex}`
ChunkKey(path, chunkIndex) == path \o CHUNK_SUFFIX \o Decimal(chunkIndex)

\* `${path}${CHUNK_SUFFIX}`
ChunkPrefix(path) == path \o CHUNK_SUFFIX

\* A variant of the children prefix without the separating slash: the
\* directory's own record then counts among its children
DirPrefixNoSlash(path) == path

\* path.endsWith("/") ? path : `${path}/`
DirPrefix(path) == IF path[Len(path)] = "/" THEN path ELSE path \o <<"/">>

StartsWith(key, prefix) ==
    Len(key) >= Len(prefix) /\ SubSeq(key, 1, Len(prefix)) = prefix

\* The order of characters (ASCII) and of keys (lexicographic)
CharOrder ==
    <<".", "/", "0", "1", "2", "3", "4", "5", "6", "7", "8", "9", "_",
      "a", "c", "d", "e", "f", "g", "h", "k", "m", "n", "s", "t", "u", "x", "y", "z">>
Code(c) == CHOOSE n \in 1..Len(CharOrder) : CharOrder[n] = c

RECURSIVE KeyLess(_, _)
KeyLess(a, b) ==
    IF Len(b) = 0 THEN FALSE
    ELSE IF Len(a) = 0 THEN TRUE
    ELSE IF a[1] = b[1] THEN KeyLess(Tail(a), Tail(b))
    ELSE Code(a[1]) < Code(b[1])

-----------------------------------------------------------------------------
(* The HPKV store (the external key-value service) as the routes use it.   *)
(* A value is [kind |-> "json", m |-> metadata record] or                   *)
(* [kind |-> "text", s |-> code units].                                     *)

EmptyStore == [k \in {} |-> 0]

Has(st, key) == key \in DOMAIN st

\* POST /record: upsert
Put(st, key, value) ==
    [k \in DOMAIN st \cup {key} |-> IF k = key THEN value ELSE st[k]]

\* DELETE /record
Del(st, key) == [k \in DOMAIN st \ {key} |-> st[k]]

\* callHpkVApi, src/lib/hpkv-api.ts: what one call of the store answers.  The
\* argument fail of the operators below is NoFault when the store answers
\* by its contents, and otherwise the status of its failing response
\* (response.ok is false, line 36); a fetch that throws counts as 500
\* (line 55).
NoFault == 0

\* The failing statuses the store answers with in the behaviours checked.  A
\* 404 is the store's answer for a key it does not hold, and is not among
\* the failures of a call on a key it holds.
StoreErrorStatuses == {500, 503}

\* What the next store call may answer
FaultChoices ==
    IF faults < MaxFaults THEN {NoFault} \cup StoreErrorStatuses ELSE {NoFault}

\* The keys under a prefix, in key order
RECURSIVE SortKeys(_)
SortKeys(S) ==
    IF S = {} THEN <<>>
    ELSE LET m == CHOOSE k \in S : \A o \in S : o = k \/ KeyLess(k, o)
         IN <<m>> \o SortKeys(S \ {m})

KeysWithPrefix(st, prefix) == {k \in DOMAIN st : StartsWith(k, prefix)}

\* The orders in which the store may enumerate the items of a page
Orders(items) ==
    {[k \in 1..Len(items) |-> items[p[k]]] :
        p \in {q \in [1..Len(items) -> 1..Len(items)] :
                 \A a, b \in 1..Len(items) : q[a] = q[b] => a = b}}

\* GET /list?prefix=..&marker=..: one page of at most PageSize keys after the
\* marker, and the marker of the next page when keys remain.  The store
\* fills its pages in key order; within data.items the keys of a page come
\* in any order
ListPages(st, prefix, hasMarker, marker) ==
    LET all == SortKeys({k \in KeysWithPrefix(st, prefix) :
                           ~hasMarker \/ KeyLess(marker, k)})
        n == Min(PageSize, Len(all))
    IN {[items |-> o,
         hasNext |-> Len(all) > n,
         nextMarker |-> IF Len(all) > n THEN all[n] ELSE <<>>] :
           o \in Orders(SubSeq(all, 1, n))}

-----------------------------------------------------------------------------
(* Metadata records *)

NoMetadata ==
    [mode |-> 0, uid |-> 0, gid |-> 0, size |-> 0,
     atime |-> 0, mtime |-> 0, ctime |-> 0, num_chunks |-> -1]

\* write/route.ts: metadata = { mode: DEFAULT_FILE_MODE, uid: 1000, ... }
NewFileMetadata(t) ==
    [mode |-> DEFAULT_FILE_MODE, uid |-> 1000, gid |-> 1000, size |-> 0,
     atime |-> t, mtime |-> t, ctime |-> t, num_chunks |-> 0]

\* mkdir/route.ts: newMetadata (num_chunks is left undefined: -1)
NewDirMetadata(t) ==
    [mode |-> DEFAULT_DIR_MODE, uid |-> 1000, gid |-> 1000, size |-> 0,
     atime |-> t, mtime |-> t, ctime |-> t, num_chunks |-> -1]

\* if (metadataObject.size > 0 && metadataObject.num_chunks === undefined)
\*     metadataObject.num_chunks = Math.ceil(metadataObject.size / MAX_CHUNK_SIZE)
FillNumChunks(m) ==
    IF m.size > 0 /\ m.num_chunks = -1
    THEN [m EXCEPT !.num_chunks = Ceil(m.size, MAX_CHUNK_SIZE)]
    ELSE m

\* getMetadata of write/route.ts (POST) and of the delete route: 404 is not an
\* error, any other failure is
GetMetadata(st, key, fail) ==
    IF fail = 404 THEN [status |-> 404, error |-> "", found |-> FALSE,
                        metadata |-> NoMetadata]
    ELSE IF fail # NoFault
    THEN [status |-> fail, error |-> "Failed to get metadata",
          found |-> FALSE, metadata |-> NoMetadata]
    ELSE IF ~Has(st, key) THEN [status |-> 404, error |-> "", found |-> FALSE,
                                metadata |-> NoMetadata]
    ELSE [status |-> 200, error |-> "", found |-> TRUE,
          metadata |-> FillNumChunks(st[key].m)]

\* getMetadata of the read handler: every failure, 404 included, is an error
GetMetadataRead(st, key, fail) ==
    IF fail # NoFault
    THEN [status |-> fail, error |-> "Failed to get metadata",
          found |-> FALSE, metadata |-> NoMetadata]
    ELSE IF ~Has(st, key) THEN [status |-> 404, error |-> "Failed to get metadata",
                                found |-> FALSE, metadata |-> NoMetadata]
    ELSE [status |-> 200, error |-> "", found |-> TRUE,
          metadata |-> FillNumChunks(st[key].m)]

\* getMetadata of mkdir/route.ts: num_chunks is not filled in
GetMetadataMkdir(st, key, fail) ==
    IF fail = 404 THEN [status |-> 404, error |-> "", found |-> FALSE,
                        metadata |-> NoMetadata]
    ELSE IF fail # NoFault
    THEN [status |-> fail, error |-> "Failed to get metadata",
          found |-> FALSE, metadata |-> NoMetadata]
    ELSE IF ~Has(st, key) THEN [status |-> 404, error |-> "", found |-> FALSE,
                                metadata |-> NoMetadata]
    ELSE [status |-> 200, error |-> "", found |-> TRUE, metadata |-> st[key].m]

\* getChunk (both handlers): a missing chunk (status 404) is chunkData null,
\* no error; any other failing status is an error with that status
GetChunk(st, path, chunkIndex, fail) ==
    IF fail = 404 THEN [status |-> 404, error |-> "", chunkData |-> <<>>]
    ELSE IF fail # NoFault
    THEN [status |-> fail, error |-> "Failed to get chunk", chunkData |-> <<>>]
    ELSE IF ~Has(st, ChunkKey(path, chunkIndex))
    THEN [status |-> 404, error |-> "", chunkData |-> <<>>]
    ELSE [status |-> 200, error |-> "", chunkData |-> st[ChunkKey(path, chunkIndex)].s]

JsonValue(m) == [kind |-> "json", m |-> m]
TextValue(s) == [kind |-> "text", s |-> s]

-----------------------------------------------------------------------------
(* The clock.  The handlers read it where the code calls Date.now(); a      *)
(* second passes at any moment, between two requests or between two store   *)
(* calls of one.                                                            *)

Tick ==
    /\ now < MaxClock
    /\ now' = now + 1
    /\ UNCHANGED <<store, slot, nops, faults>>

-----------------------------------------------------------------------------
(* Requests.  A slot holds one request: its parameters, the handler's      *)
(* local variables, its position (pc) and, once done, its response.  pre   *)
(* is the store as it was when the request arrived, answer the answer of   *)
(* getMetadata that is on its way to the handler.                          *)

IdleSlot ==
    [op |-> "none", pc |-> "idle", path |-> <<>>, offset |-> 0, size |-> 0,
     data |-> <<>>, metadata |-> NoMetadata, found |-> FALSE, isNewFile |-> FALSE,
     t |-> 0, i |-> 0, currentWriteOffset |-> 0, existingChunk |-> <<>>,
     readSize |-> 0, numChunks |-> 0, combinedData |-> <<>>, bytesRead |-> 0,
     allKeys |-> <<>>, hasMarker |-> FALSE, marker |-> <<>>,
     keysToDelete |-> <<>>, results |-> <<>>, listFailed |-> FALSE, puts |-> <<>>, gets |-> <<>>,
     status |-> 0, error |-> "", bytesWritten |-> 0, out |-> <<>>,
     seq |-> 0, pre |-> EmptyStore, fault |-> "",
     items |-> <<>>, entries |-> <<>>, folded |-> FALSE, failedFirst |-> 0,
     faultStatus |-> 0, answer |-> [status |-> 0, error |-> "", found |-> FALSE,
                                    metadata |-> NoMetadata]]

Free(s) == slot[s].pc \in {"idle", "done"}

\* return NextResponse.json({ error }, { status })
Respond(r, status, error) == [r EXCEPT !.pc = "done", !.status = status, !.error = error]

-----------------------------------------------------------------------------
(* POST /api/write: write/route.ts, lines 104-252 *)

\* lines 105-147: parameter checks, the body, the empty write.  The path is
\* NoPath when the parameter is absent or empty; the offset is the integer
\* that parseInt gives; the API key and URL headers are present.
StartWrite(s, path, offset, body) ==
    /\ Free(s)
    /\ nops < MaxOps
    /\ nops' = nops + 1
    /\ LET writeData == Base64Decode(body)
           r == [IdleSlot EXCEPT !.op = "write", !.path = path, !.offset = offset,
                                 !.data = writeData, !.size = Len(writeData),
                                 !.seq = nops + 1, !.pre = store]
       IN slot' = [slot EXCEPT ![s] =
             IF path = NoPath
             THEN Respond(r, 400, "Path and offset parameters are required")
             ELSE IF offset < 0 THEN Respond(r, 400, "Invalid offset")
             ELSE IF Len(body) = 0
             THEN Respond(r, 400, "Request body with base64 data is required")
             ELSE IF Len(writeData) = 0
             THEN Respond(r, 200, "")
             ELSE [r EXCEPT !.pc = "w_getMetadata"]]
    /\ UNCHANGED <<store, now, faults>>

WriteEnd(r) == r.offset + r.size

\* A variant of the first index that starts every write at chunk 0
StartChunkZero(r) == 0

\* line 182: startChunk
StartChunk(r) == r.offset \div MAX_CHUNK_SIZE

\* line 183: endChunk
EndChunk(r) == (WriteEnd(r) - 1) \div MAX_CHUNK_SIZE

\* A variant of the directory check that lets every record pass
IsDirectoryWriteNever(metadata) == FALSE

\* line 175: (metadata.mode & 0o170000) === 0o040000
IsDirectoryWrite(metadata) == IsDirMode(metadata.mode)

\* line 151, await getMetadata: the store answers the GET of the record
WriteGetMetadata(s) ==
    /\ slot[s].pc = "w_getMetadata"
    /\ \E fail \in FaultChoices :
         LET r == slot[s]
             g == GetMetadata(store, MetadataKey(r.path), fail)
         IN /\ faults' = IF fail # NoFault THEN faults + 1 ELSE faults
            /\ slot' = [slot EXCEPT ![s] =
                 [r EXCEPT !.answer = g,
                           !.fault = IF g.error # "" THEN "getMetadata" ELSE @,
                           !.faultStatus = IF g.error # "" THEN fail ELSE @,
                           !.pc = "w_gotMetadata"]]
    /\ UNCHANGED <<store, now, nops>>

\* lines 152-185: the answer has arrived: its error, the clock (line 157),
\* the new file's record, the directory check
WriteGotMetadata(s) ==
    /\ slot[s].pc = "w_gotMetadata"
    /\ LET r == slot[s]
           t == now
           g == r.answer
       IN slot' = [slot EXCEPT ![s] =
            IF g.error # ""
            THEN Respond(r, g.status, g.error)
            ELSE IF ~g.found
            THEN [r EXCEPT !.metadata = NewFileMetadata(t), !.isNewFile = TRUE,
                           !.t = t, !.i = StartChunk(r), !.pc = "w_getChunk"]
            ELSE IF IsDirectoryWrite(g.metadata)
            THEN Respond([r EXCEPT !.t = t], 400, "Path is a directory")
            ELSE [r EXCEPT !.metadata = g.metadata, !.found = TRUE, !.t = t,
                           !.i = StartChunk(r), !.pc = "w_getChunk"]]
    /\ UNCHANGED <<store, now, nops, faults>>

\* lines 193-199: getChunk(path, i), existingChunk
WriteGetChunk(s) ==
    /\ slot[s].pc = "w_getChunk"
    /\ \E fail \in FaultChoices :
         LET r == slot[s]
             g == GetChunk(store, r.path, r.i, fail)
         IN /\ faults' = IF fail # NoFault THEN faults + 1 ELSE faults
            /\ slot' = [slot EXCEPT ![s] =
                 IF g.error # ""
                 THEN Respond([r EXCEPT !.fault = "getChunk", !.faultStatus = fail], g.status, g.error)
                 ELSE [r EXCEPT !.existingChunk = Utf8Encode(g.chunkData),
                                !.gets = Append(@, r.i),
                                !.pc = "w_writeChunk"]]
    /\ UNCHANGED <<store, now, nops>>

\* lines 202-204
WriteStartInChunk(offset, i) == Max(0, offset - i * MAX_CHUNK_SIZE)
WriteEndInChunk(writeEnd, i) == Min(MAX_CHUNK_SIZE, writeEnd - i * MAX_CHUNK_SIZE)

\* A variant of the chunk merge that copies the data from its start in every
\* chunk, ignoring how much of it earlier chunks consumed
NewChunkNoCursor(existingChunk, writeData, offset, i, currentWriteOffset) ==
    LET writeEnd == offset + Len(writeData)
        ws == WriteStartInChunk(offset, i)
        we == WriteEndInChunk(writeEnd, i)
        kept == Min(ws, Len(existingChunk))
        alloc == [k \in 1..(ws - kept) |-> 0]
    IN SubSeq(existingChunk, 1, kept) \o alloc
         \o SubSeq(writeData, 1, we - ws)
         \o (IF we < Len(existingChunk)
             THEN SubSeq(existingChunk, we + 1, Len(existingChunk)) ELSE <<>>)

\* lines 207-221: the new chunk, of max(existingChunk.length,
\* writeEndInChunk) bytes: the existing chunk up to the start of the write
\* (line 212), zeros where it ends before that start (Buffer.alloc), the
\* data (line 216), the existing chunk after the end of the write (line 220)
NewChunk(existingChunk, writeData, offset, i, currentWriteOffset) ==
    LET writeEnd == offset + Len(writeData)
        ws == WriteStartInChunk(offset, i)
        we == WriteEndInChunk(writeEnd, i)
        kept == Min(ws, Len(existingChunk))
        alloc == [k \in 1..(ws - kept) |-> 0]
    IN SubSeq(existingChunk, 1, kept) \o alloc
         \o SubSeq(writeData, currentWriteOffset + 1, currentWriteOffset + (we - ws))
         \o (IF we < Len(existingChunk)
             THEN SubSeq(existingChunk, we + 1, Len(existingChunk)) ELSE <<>>)

\* A variant of the loop that leaves for the metadata update after the first
\* put, whatever indices remain
WriteChunkResultEarlyMetadata(r, fail, n) ==
    IF fail # NoFault
    THEN Respond([r EXCEPT !.fault = "writeChunk", !.faultStatus = fail], fail, "Failed to write chunk")
    ELSE [r EXCEPT !.currentWriteOffset = @ + n,
                   !.puts = Append(@, r.i),
                   !.i = @ + 1,
                   !.pc = "w_writeMetadata"]

\* A variant of the loop that goes on to the next index after a failed put
WriteChunkResultGoesOn(r, fail, n) ==
    [r EXCEPT !.fault = IF fail # NoFault THEN "writeChunk" ELSE @,
              !.faultStatus = IF fail # NoFault THEN fail ELSE @,
              !.currentWriteOffset = @ + n,
              !.puts = IF fail # NoFault THEN @ ELSE Append(@, r.i),
              !.i = @ + 1,
              !.pc = IF r.i + 1 <= EndChunk(r) THEN "w_getChunk" ELSE "w_writeMetadata"]

\* lines 225-229: a failed put ends the request with its error; otherwise
\* currentWriteOffset += bytesToWriteInChunk and the loop goes on
WriteChunkResult(r, fail, n) ==
    IF fail # NoFault
    THEN Respond([r EXCEPT !.fault = "writeChunk", !.faultStatus = fail], fail, "Failed to write chunk")
    ELSE [r EXCEPT !.currentWriteOffset = @ + n,
                   !.puts = Append(@, r.i),
                   !.i = @ + 1,
                   !.pc = IF r.i + 1 <= EndChunk(r) THEN "w_getChunk"
                          ELSE "w_writeMetadata"]

\* lines 224-230: writeChunk(path, i, newChunk.toString('utf8')), the next index
WriteWriteChunk(s) ==
    /\ slot[s].pc = "w_writeChunk"
    /\ \E fail \in FaultChoices :
         LET r == slot[s]
             newChunk == NewChunk(r.existingChunk, r.data, r.offset, r.i,
                                  r.currentWriteOffset)
             n == WriteEndInChunk(WriteEnd(r), r.i) - WriteStartInChunk(r.offset, r.i)
         IN /\ faults' = IF fail # NoFault THEN faults + 1 ELSE faults
            /\ store' = IF fail # NoFault THEN store
                        ELSE Put(store, ChunkKey(r.path, r.i), TextValue(Utf8Decode(newChunk)))
            /\ slot' = [slot EXCEPT ![s] = WriteChunkResult(r, fail, n)]
    /\ UNCHANGED <<now, nops>>

\* A variant of the record update that rounds the chunk count down
UpdatedMetadataFloor(metadata, writeEnd, t, isNewFile) ==
    LET newSize == Max(metadata.size, writeEnd)
    IN [metadata EXCEPT !.size = newSize, !.mtime = t, !.atime = t,
                        !.ctime = IF isNewFile THEN t ELSE @,
                        !.num_chunks = newSize \div MAX_CHUNK_SIZE]

\* A variant of the record update that sets ctime at every write
UpdatedMetadataCtime(metadata, writeEnd, t, isNewFile) ==
    LET newSize == Max(metadata.size, writeEnd)
    IN [metadata EXCEPT !.size = newSize, !.mtime = t, !.atime = t, !.ctime = t,
                        !.num_chunks = Ceil(newSize, MAX_CHUNK_SIZE)]

\* lines 233-238: size, times, num_chunks
UpdatedMetadata(metadata, writeEnd, t, isNewFile) ==
    LET newSize == Max(metadata.size, writeEnd)
    IN [metadata EXCEPT !.size = newSize, !.mtime = t, !.atime = t,
                        !.ctime = IF isNewFile THEN t ELSE @,
                        !.num_chunks = Ceil(newSize, MAX_CHUNK_SIZE)]

\* A variant of the response that reports a failed metadata put as a chunk
\* failure
WriteMetadataResultAsChunk(r, m, fail) ==
    IF fail # NoFault
    THEN Respond([r EXCEPT !.metadata = m, !.fault = "writeMetadata", !.faultStatus = fail], fail,
                 "Failed to write chunk")
    ELSE [Respond([r EXCEPT !.metadata = m], 200, "") EXCEPT !.bytesWritten = r.size]

\* lines 241-246: a failed metadata put is reported as such; otherwise
\* { bytesWritten: size }
WriteMetadataResult(r, m, fail) ==
    IF fail # NoFault
    THEN Respond([r EXCEPT !.metadata = m, !.fault = "writeMetadata", !.faultStatus = fail], fail,
                 "Write succeeded but failed to update metadata")
    ELSE [Respond([r EXCEPT !.metadata = m], 200, "") EXCEPT !.bytesWritten = r.size]

\* lines 240-246: writeMetadata, the response
WriteWriteMetadata(s) ==
    /\ slot[s].pc = "w_writeMetadata"
    /\ \E fail \in FaultChoices :
         LET r == slot[s]
             m == UpdatedMetadata(r.metadata, WriteEnd(r), r.t, r.isNewFile)
         IN /\ faults' = IF fail # NoFault THEN faults + 1 ELSE faults
            /\ store' = IF fail # NoFault THEN store
                        ELSE Put(store, MetadataKey(r.path), JsonValue(m))
            /\ slot' = [slot EXCEPT ![s] = WriteMetadataResult(r, m, fail)]
    /\ UNCHANGED <<now, nops>>

-----------------------------------------------------------------------------
(* GET (read): write/route.ts, lines 321-424 *)

\* lines 322-345: parameter checks, the read of size 0
StartRead(s, path, offset, size) ==
    /\ Free(s)
    /\ nops < MaxOps
    /\ nops' = nops + 1
    /\ LET r == [IdleSlot EXCEPT !.op = "read", !.path = path, !.offset = offset,
                                 !.size = size, !.seq = nops + 1, !.pre = store]
       IN slot' = [slot EXCEPT ![s] =
             IF path = NoPath
             THEN Respond(r, 400, "Path, offset, and size parameters are required")
             ELSE IF offset < 0 \/ size < 0
             THEN Respond(r, 400, "Invalid offset or size")
             ELSE IF size = 0 THEN Respond(r, 200, "")
             ELSE [r EXCEPT !.pc = "r_getMetadata"]]
    /\ UNCHANGED <<store, now, faults>>

\* A variant of the response that hands the bytes out once: every request
\* after the first is answered with an empty body
ReadRespondOnce(r, combinedData) ==
    LET cut == IF Len(combinedData) > r.readSize
               THEN SubSeq(combinedData, 1, r.readSize) ELSE combinedData
    IN [Respond(r, 200, "") EXCEPT !.combinedData = cut,
                                   !.out = IF r.seq > 1 THEN <<>> ELSE Utf8Encode(cut)]

\* lines 408-418: truncate to readSize, respond with the string (sent as UTF-8)
ReadRespond(r, combinedData) ==
    LET cut == IF Len(combinedData) > r.readSize
               THEN SubSeq(combinedData, 1, r.readSize) ELSE combinedData
    IN [Respond(r, 200, "") EXCEPT !.combinedData = cut, !.out = Utf8Encode(cut)]

\* lines 349-377: getMetadata, the directory check, the clip to the file size
ReadGetMetadata(s) ==
    /\ slot[s].pc = "r_getMetadata"
    /\ \E fail \in FaultChoices :
         LET r == slot[s]
             g == GetMetadataRead(store, MetadataKey(r.path), fail)
             fileSize == g.metadata.size
             readSize == Min(r.size, fileSize - r.offset)
             numChunks == IF g.metadata.num_chunks = -1
                          THEN Ceil(fileSize, MAX_CHUNK_SIZE) ELSE g.metadata.num_chunks
             startChunk == r.offset \div MAX_CHUNK_SIZE
             endChunk == (r.offset + readSize - 1) \div MAX_CHUNK_SIZE
             r2 == [r EXCEPT !.metadata = g.metadata, !.found = TRUE,
                             !.readSize = readSize, !.numChunks = numChunks,
                             !.i = startChunk]
         IN /\ faults' = IF fail # NoFault THEN faults + 1 ELSE faults
            /\ slot' = [slot EXCEPT ![s] =
                 IF g.error # "" \/ ~g.found
                 THEN Respond([r EXCEPT !.fault = IF fail # NoFault THEN "getMetadata" ELSE @,
                                        !.faultStatus = IF fail # NoFault THEN fail ELSE @],
                              g.status, g.error)
                 ELSE IF IsDirMode(g.metadata.mode) THEN Respond(r, 400, "Path is a directory")
                 ELSE IF r.offset >= fileSize THEN Respond(r2, 200, "")
                 ELSE IF readSize <= 0 THEN Respond(r2, 200, "")
                 ELSE IF startChunk <= endChunk /\ startChunk < numChunks
                 THEN [r2 EXCEPT !.pc = "r_getChunk"]
                 ELSE ReadRespond(r2, <<>>)]
    /\ UNCHANGED <<store, now, nops>>

\* lines 388-399: the part of chunk i that the read takes:
\* chunkContent.substring(readStartInChunk, readEndInChunk), or nothing
ChunkPart(chunkContent, offset, readSize, i) ==
    LET readStartInChunk == Max(0, offset - i * MAX_CHUNK_SIZE)
        readEndInChunk == Min(Len(chunkContent), offset + readSize - i * MAX_CHUNK_SIZE)
    IN IF readEndInChunk - readStartInChunk > 0
       THEN SubSeq(chunkContent, readStartInChunk + 1, readEndInChunk)
       ELSE <<>>

\* lines 377-405: one turn of the chunk loop
ReadGetChunk(s) ==
    /\ slot[s].pc = "r_getChunk"
    /\ \E fail \in FaultChoices :
         LET r == slot[s]
             g == GetChunk(store, r.path, r.i, fail)
             part == ChunkPart(g.chunkData, r.offset, r.readSize, r.i)
             combinedData == r.combinedData \o part
             bytesRead == r.bytesRead + Len(part)
             endChunk == (r.offset + r.readSize - 1) \div MAX_CHUNK_SIZE
             r2 == [r EXCEPT !.combinedData = combinedData, !.bytesRead = bytesRead,
                             !.gets = Append(@, r.i), !.i = @ + 1]
         IN /\ faults' = IF fail # NoFault THEN faults + 1 ELSE faults
            /\ slot' = [slot EXCEPT ![s] =
                 IF g.error # ""
                 THEN Respond([r EXCEPT !.fault = "getChunk", !.faultStatus = fail], g.status, g.error)
                 ELSE IF bytesRead >= r.readSize THEN ReadRespond(r2, combinedData)
                 ELSE IF r.i + 1 <= endChunk /\ r.i + 1 < r.numChunks
                 THEN r2
                 ELSE ReadRespond(r2, combinedData)]
    /\ UNCHANGED <<store, now, nops>>

-----------------------------------------------------------------------------
(* DELETE /api/delete: the delete route, lines 116-197 *)

\* A variant of the root test that holds for no path
IsRootPathNever(path) == FALSE

\* line 122 (and mkdir/route.ts line 72): path === "/"
IsRootPath(path) == path = Root

\* lines 117-127: an absent or empty path and the root are refused
StartDelete(s, path) ==
    /\ Free(s)
    /\ nops < MaxOps
    /\ nops' = nops + 1
    /\ LET r == [IdleSlot EXCEPT !.op = "delete", !.path = path, !.seq = nops + 1, !.pre = store]
       IN slot' = [slot EXCEPT ![s] =
             IF path = NoPath \/ IsRootPath(path)
             THEN Respond(r, 400, "Path parameter is required and cannot be root (/)")
             ELSE [r EXCEPT !.pc = "d_getMetadata"]]
    /\ UNCHANGED <<store, now, faults>>

\* lines 131-142, 164-167: getMetadata, isDirectory, the metadata key to delete
DeleteGetMetadata(s) ==
    /\ slot[s].pc = "d_getMetadata"
    /\ \E fail \in FaultChoices :
         LET r == slot[s]
             g == GetMetadata(store, MetadataKeyRoot(r.path), fail)
         IN /\ faults' = IF fail # NoFault THEN faults + 1 ELSE faults
            /\ slot' = [slot EXCEPT ![s] =
                 IF g.status # 404 /\ g.error # ""
                 THEN Respond([r EXCEPT !.fault = "getMetadata", !.faultStatus = fail], g.status, g.error)
                 ELSE IF g.found /\ IsDirMode(g.metadata.mode)
                 THEN [r EXCEPT !.metadata = g.metadata, !.found = TRUE,
                                !.pc = "d_listChildren"]
                 ELSE [r EXCEPT !.metadata = g.metadata, !.found = g.found,
                                !.keysToDelete = <<MetadataKey(r.path)>>,
                                !.pc = "d_listChunks"]]
    /\ UNCHANGED <<store, now, nops>>

\* listAllKeysWithPrefix, lines 62-98: one page of the do-while loop;
\* allKeys.concat(data.items.map(item => item.key)) takes the keys in the
\* order of data.items
\* lines 146-155: the directory is empty iff no key lies under path + "/"
DeleteListChildren(s) ==
    /\ slot[s].pc = "d_listChildren"
    /\ \E fail \in FaultChoices :
       \E page \in ListPages(store, DirPrefix(slot[s].path), slot[s].hasMarker,
                             slot[s].marker) :
         LET r == slot[s]
             allKeys == r.allKeys \o page.items
         IN /\ faults' = IF fail # NoFault THEN faults + 1 ELSE faults
            /\ slot' = [slot EXCEPT ![s] =
                 IF fail # NoFault
                 THEN Respond([r EXCEPT !.fault = "list", !.faultStatus = fail], fail,
                              "Failed to check if directory is empty")
                 ELSE IF page.hasNext
                 THEN [r EXCEPT !.allKeys = allKeys, !.hasMarker = TRUE,
                                !.marker = page.nextMarker]
                 ELSE IF Len(allKeys) > 0
                 THEN Respond([r EXCEPT !.allKeys = allKeys], 400, "Directory not empty")
                 ELSE [r EXCEPT !.allKeys = allKeys, !.pc = "d_deleteMetadata"]]
    /\ UNCHANGED <<store, now, nops>>

\* A variant of deleteKey for which an absent key is an error
DeleteKeyStrict(st, key, fail) ==
    IF fail \notin {NoFault, 404} THEN [error |-> TRUE, status |-> fail]
    ELSE IF fail = 404 \/ ~Has(st, key) THEN [error |-> TRUE, status |-> 404]
    ELSE [error |-> FALSE, status |-> 200]

\* deleteKey, lines 101-114: { error, status } of the call; a 404 (the key is
\* absent) is turned into a success
DeleteKey(st, key, fail) ==
    IF fail \notin {NoFault, 404} THEN [error |-> TRUE, status |-> fail]
    ELSE [error |-> FALSE, status |-> 200]

\* A deletion of Promise.all that has not answered yet
Pending == [error |-> FALSE, status |-> 0]

\* lines 158-161: the directory's metadata key
DeleteDirMetadata(s) ==
    /\ slot[s].pc = "d_deleteMetadata"
    /\ \E fail \in FaultChoices :
         LET r == slot[s]
             result == DeleteKey(store, MetadataKey(r.path), fail)
         IN /\ faults' = IF fail # NoFault THEN faults + 1 ELSE faults
            /\ store' = IF fail # NoFault THEN store ELSE Del(store, MetadataKey(r.path))
            /\ slot' = [slot EXCEPT ![s] =
                 IF result.error
                 THEN Respond([r EXCEPT !.fault = IF fail # NoFault THEN "deleteKey" ELSE @,
                                        !.faultStatus = IF fail # NoFault THEN fail ELSE @],
                              result.status, "Failed to delete directory metadata")
                 ELSE Respond(r, 200, "")]
    /\ UNCHANGED <<now, nops>>

\* lines 170-181: the chunk keys under path + CHUNK_SUFFIX, page by page; a
\* failed scan is logged and the deletion goes on with what it has
DeleteListChunks(s) ==
    /\ slot[s].pc = "d_listChunks"
    /\ \E fail \in FaultChoices :
       \E page \in ListPages(store, ChunkPrefix(slot[s].path), slot[s].hasMarker,
                             slot[s].marker) :
         LET r == slot[s]
             allKeys == r.allKeys \o page.items
             keysToDelete == r.keysToDelete \o allKeys
         IN /\ faults' = IF fail # NoFault THEN faults + 1 ELSE faults
            /\ slot' = [slot EXCEPT ![s] =
                 IF fail # NoFault
                 THEN [r EXCEPT !.results = [k \in 1..Len(r.keysToDelete) |-> Pending],
                                !.listFailed = TRUE, !.fault = "list", !.faultStatus = fail,
                                !.pc = "d_deleteKeys"]
                 ELSE IF page.hasNext
                 THEN [r EXCEPT !.allKeys = allKeys, !.hasMarker = TRUE,
                                !.marker = page.nextMarker]
                 ELSE [r EXCEPT !.allKeys = allKeys, !.keysToDelete = keysToDelete,
                                !.results = [k \in 1..Len(keysToDelete) |-> Pending],
                                !.pc = "d_deleteKeys"]]
    /\ UNCHANGED <<store, now, nops>>

\* results.find(r => r.error): the first failed deletion in the order of keysToDelete
FirstError(results) ==
    IF \E k \in 1..Len(results) : results[k].error
    THEN CHOOSE k \in 1..Len(results) :
           results[k].error /\ \A j \in 1..(k - 1) : ~results[j].error
    ELSE 0

\* lines 181-188: Promise.all over deleteKey: the deletions are all in flight
\* and complete in any order; the response follows the last of them
DeleteKeys(s) ==
    /\ slot[s].pc = "d_deleteKeys"
    /\ \E k \in 1..Len(slot[s].keysToDelete) : \E fail \in FaultChoices :
         LET r == slot[s]
             result == DeleteKey(store, r.keysToDelete[k], fail)
             results == [r.results EXCEPT ![k] = result]
             r2 == [r EXCEPT !.results = results,
                             !.fault = IF fail # NoFault THEN "deleteKey" ELSE @,
                             !.faultStatus = IF fail # NoFault THEN fail ELSE @,
                             !.failedFirst = IF result.error /\ @ = 0 THEN k ELSE @]
         IN /\ r.results[k] = Pending
            /\ faults' = IF fail # NoFault THEN faults + 1 ELSE faults
            /\ store' = IF fail # NoFault THEN store ELSE Del(store, r.keysToDelete[k])
            /\ slot' = [slot EXCEPT ![s] =
                 IF \E j \in 1..Len(results) : results[j] = Pending THEN r2
                 ELSE IF FirstError(results) # 0
                 THEN Respond(r2, results[FirstError(results)].status,
                              "Failed to delete one or more keys")
                 ELSE Respond(r2, 200, "")]
    /\ UNCHANGED <<now, nops>>

-----------------------------------------------------------------------------
(* POST /api/mkdir: mkdir/route.ts, lines 64-130 *)

\* lines 65-82: an absent or empty path, the root and a trailing slash are
\* refused
StartMkdir(s, path) ==
    /\ Free(s)
    /\ nops < MaxOps
    /\ nops' = nops + 1
    /\ LET r == [IdleSlot EXCEPT !.op = "mkdir", !.path = path, !.seq = nops + 1, !.pre = store]
       IN slot' = [slot EXCEPT ![s] =
             IF path = NoPath \/ IsRootPath(path)
             THEN Respond(r, 400, "Path parameter is required and cannot be root (/)")
             ELSE IF path[Len(path)] = "/"
             THEN Respond(r, 400, "Directory path should not end with a slash")
             ELSE [r EXCEPT !.pc = "m_getMetadata"]]
    /\ UNCHANGED <<store, now, faults>>

\* A variant of the answer for an existing path that refuses a directory too
MkdirExistingRefused(r, metadata) ==
    Respond([r EXCEPT !.metadata = metadata, !.found = TRUE], 409,
            "Path exists but is not a directory")

\* A variant of the answer for an existing path that accepts a file too
MkdirExistingAccepted(r, metadata) ==
    Respond([r EXCEPT !.metadata = metadata, !.found = TRUE], 200, "")

\* lines 93-102: the path exists: 200 for a directory, 409 for anything else
MkdirExisting(r, metadata) ==
    IF IsDirMode(metadata.mode)
    THEN Respond([r EXCEPT !.metadata = metadata, !.found = TRUE], 200, "")
    ELSE Respond([r EXCEPT !.metadata = metadata, !.found = TRUE], 409,
                 "Path exists but is not a directory")

\* line 86, await getMetadata: the store answers the GET of the record
MkdirGetMetadata(s) ==
    /\ slot[s].pc = "m_getMetadata"
    /\ \E fail \in FaultChoices :
         LET r == slot[s]
             g == GetMetadataMkdir(store, MetadataKeyRoot(r.path), fail)
         IN /\ faults' = IF fail # NoFault THEN faults + 1 ELSE faults
            /\ slot' = [slot EXCEPT ![s] = [r EXCEPT !.answer = g, !.pc = "m_gotMetadata"]]
    /\ UNCHANGED <<store, now, nops>>

\* lines 88-105: the answer has arrived: its error, the path exists already;
\* otherwise the clock (line 105)
MkdirGotMetadata(s) ==
    /\ slot[s].pc = "m_gotMetadata"
    /\ LET r == slot[s]
           t == now
           g == r.answer
       IN slot' = [slot EXCEPT ![s] =
            IF g.error # "" THEN Respond(r, g.status, "Failed to check existing path")
            ELSE IF g.found THEN MkdirExisting(r, g.metadata)
            ELSE [r EXCEPT !.t = t, !.pc = "m_writeMetadata"]]
    /\ UNCHANGED <<store, now, nops, faults>>

\* lines 105-124: the new directory's record
MkdirWriteMetadata(s) ==
    /\ slot[s].pc = "m_writeMetadata"
    /\ \E fail \in FaultChoices :
         LET r == slot[s]
             m == NewDirMetadata(r.t)
         IN /\ faults' = IF fail # NoFault THEN faults + 1 ELSE faults
            /\ store' = IF fail # NoFault THEN store
                        ELSE Put(store, MetadataKey(r.path), JsonValue(m))
            /\ slot' = [slot EXCEPT ![s] =
                 IF fail # NoFault
                 THEN Respond(r, fail, "Failed to create directory metadata")
                 ELSE Respond([r EXCEPT !.metadata = m], 201, "")]
    /\ UNCHANGED <<now, nops>>

-----------------------------------------------------------------------------
(* A whole request run alone on a store whose calls all succeed: the same   *)
(* steps as the actions above, with no other request in between.            *)

\* The chunk loop of POST (write) from index i on
RECURSIVE RunWriteChunks(_, _, _, _, _, _)
RunWriteChunks(st, path, offset, writeData, i, currentWriteOffset) ==
    LET writeEnd == offset + Len(writeData)
        existingChunk == Utf8Encode(GetChunk(st, path, i, NoFault).chunkData)
        newChunk == NewChunk(existingChunk, writeData, offset, i, currentWriteOffset)
        n == WriteEndInChunk(writeEnd, i) - WriteStartInChunk(offset, i)
    IN IF i > (writeEnd - 1) \div MAX_CHUNK_SIZE THEN st
       ELSE RunWriteChunks(Put(st, ChunkKey(path, i), TextValue(Utf8Decode(newChunk))),
                           path, offset, writeData, i + 1, currentWriteOffset + n)

\* POST (write) of non-empty data at time t to a path that is no directory
RunWrite(st, path, offset, writeData, t) ==
    LET g == GetMetadata(st, MetadataKey(path), NoFault)
        metadata == IF g.found THEN g.metadata ELSE NewFileMetadata(t)
        chunks == RunWriteChunks(st, path, offset, writeData,
                                 offset \div MAX_CHUNK_SIZE, 0)
    IN Put(chunks, MetadataKey(path),
           JsonValue(UpdatedMetadata(metadata, offset + Len(writeData), t, ~g.found)))

\* The chunk loop of GET (read) from index i on: combinedData
RECURSIVE RunReadChunks(_, _, _, _, _, _, _)
RunReadChunks(st, path, offset, readSize, numChunks, i, combinedData) ==
    LET endChunk == (offset + readSize - 1) \div MAX_CHUNK_SIZE
        part == ChunkPart(GetChunk(st, path, i, NoFault).chunkData, offset, readSize, i)
    IN IF ~(i <= endChunk /\ i < numChunks) THEN combinedData
       ELSE IF Len(combinedData) + Len(part) >= readSize THEN combinedData \o part
       ELSE RunReadChunks(st, path, offset, readSize, numChunks, i + 1,
                          combinedData \o part)

\* The bytes GET (read) answers with for a file (nothing when there is no
\* file at the path)
RunRead(st, path, offset, size) ==
    LET g == GetMetadataRead(st, MetadataKey(path), NoFault)
        fileSize == g.metadata.size
        readSize == Min(size, fileSize - offset)
        numChunks == IF g.metadata.num_chunks = -1
                     THEN Ceil(fileSize, MAX_CHUNK_SIZE) ELSE g.metadata.num_chunks
        combinedData == RunReadChunks(st, path, offset, readSize, numChunks,
                                      offset \div MAX_CHUNK_SIZE, <<>>)
    IN IF size = 0 \/ ~g.found \/ IsDirMode(g.metadata.mode) \/ offset >= fileSize
       THEN <<>>
       ELSE Utf8Encode(IF Len(combinedData) > readSize
                       THEN SubSeq(combinedData, 1, readSize) ELSE combinedData)

\* POST (mkdir) of a path that does not exist
RunMkdir(st, path, t) == Put(st, MetadataKey(path), JsonValue(NewDirMetadata(t)))

-----------------------------------------------------------------------------
(* The requests of one slot, and the specifications *)

Slots == {1, 2}

WriteSteps(s) ==
    \/ WriteGetMetadata(s)
    \/ WriteGotMetadata(s)
    \/ WriteGetChunk(s)
    \/ WriteWriteChunk(s)
    \/ WriteWriteMetadata(s)

ReadSteps(s) ==
    \/ ReadGetMetadata(s)
    \/ ReadGetChunk(s)

DeleteSteps(s) ==
    \/ DeleteGetMetadata(s)
    \/ DeleteListChildren(s)
    \/ DeleteDirMetadata(s)
    \/ DeleteListChunks(s)
    \/ DeleteKeys(s)

MkdirSteps(s) ==
    \/ MkdirGetMetadata(s)
    \/ MkdirGotMetadata(s)
    \/ MkdirWriteMetadata(s)

\* The byte strings of length n over a set of byte values
RECURSIVE BytesOfLen(_, _)
BytesOfLen(B, n) ==
    IF n = 0 THEN {<<>>}
    ELSE {<<b>> \o t : b \in B, t \in BytesOfLen(B, n - 1)}

BytesUpTo(B, n) == UNION {BytesOfLen(B, k) : k \in 0..n}

\* One client at a time: requests of every kind, each started once the
\* one before it has been answered.  The store starts empty or as earlier
\* requests of the layer have left it.
SeqPaths == {PathD, PathDG}
SeqData == {<<65>>, <<66, 66, 66>>, <<255>>}
SeqBodies == {<<>>, <<64>>} \cup {Base64Encode(d) : d \in SeqData}
SeqSizes == {0, 1, MaxOffset + 1}
\* The offsets of the requests: into the first chunk, and the start of the
\* second
Offsets == (0..(MaxOffset - 1)) \cup {MAX_CHUNK_SIZE}
\* The requests <<path, offset, body>> of POST (write) and <<path, offset,
\* size>> of GET (read), with one request for every parameter check that
\* refuses and one write that begins at the last byte of a chunk
SeqWrites ==
    (SeqPaths \X Offsets \X SeqBodies)
      \cup {<<NoPath, 0, Base64Encode(<<65>>)>>, <<PathD, -1, Base64Encode(<<65>>)>>,
            <<PathD, MAX_CHUNK_SIZE - 1, Base64Encode(<<66, 66, 66>>)>>}
SeqReads ==
    (SeqPaths \X Offsets \X SeqSizes)
      \cup {<<NoPath, 0, 1>>, <<PathD, -1, 1>>, <<PathD, 0, -1>>}

DirStore == RunMkdir(EmptyStore, PathD, 0)
DirChildStore ==
    RunWrite(RunWrite(DirStore, PathDG, 0, <<66, 66, 66>>, 0),
             PathDG, MAX_CHUNK_SIZE, <<66>>, 0)
FileStore == RunWrite(EmptyStore, PathD, 0, [k \in 1..(2 * MAX_CHUNK_SIZE) |-> 65], 0)
SeqStores == {EmptyStore, DirStore, DirChildStore, FileStore}

Init ==
    /\ store \in SeqStores
    /\ slot = [s \in Slots |-> IdleSlot]
    /\ now = 1
    /\ nops = 0
    /\ faults = 0

Next ==
    \/ \E q \in SeqWrites : StartWrite(1, q[1], q[2], q[3])
    \/ \E q \in SeqReads : StartRead(1, q[1], q[2], q[3])
    \/ \E p \in SeqPaths \cup {Root, NoPath} : StartDelete(1, p)
    \/ \E p \in SeqPaths \cup {Root, NoPath} : StartMkdir(1, p)
    \/ WriteSteps(1)
    \/ ReadSteps(1)
    \/ DeleteSteps(1)
    \/ MkdirSteps(1)

Spec == Init /\ [][Next]_vars

\* A round trip: one write at offset 0 to a fresh path, of short data or of
\* whole chunks, then the read of as many bytes from offset 0.  The store's
\* calls all succeed.
RoundTripBytes == {0, 65, 169, 195, 255}

\* Data that fills chunks to their last byte: a chunk of text; a chunk that
\* ends with a byte that is no UTF-8; two chunks with the two bytes of one
\* character on either side of their boundary
ChunkData ==
    {[k \in 1..MAX_CHUNK_SIZE |-> 65],
     [k \in 1..MAX_CHUNK_SIZE |-> IF k = MAX_CHUNK_SIZE THEN 255 ELSE 65],
     [k \in 1..(2 * MAX_CHUNK_SIZE) |->
        IF k = MAX_CHUNK_SIZE THEN 195 ELSE IF k = MAX_CHUNK_SIZE + 1 THEN 169 ELSE 65]}

InitRoundTrip ==
    /\ store = EmptyStore
    /\ slot = [s \in Slots |-> IdleSlot]
    /\ now = 1
    /\ nops = 0
    /\ faults = MaxFaults

RoundTripWrite ==
    /\ slot[1].pc = "idle"
    /\ \E d \in BytesUpTo(RoundTripBytes, MaxLen) \cup ChunkData :
         StartWrite(1, PathF, 0, Base64Encode(d))

RoundTripRead ==
    /\ slot[1].pc = "done" /\ slot[1].status = 200
    /\ slot[2].pc = "idle"
    /\ StartRead(2, PathF, 0, slot[1].size)

NextRoundTrip ==
    \/ RoundTripWrite
    \/ RoundTripRead
    \/ WriteSteps(1)
    \/ ReadSteps(2)

SpecRoundTrip == InitRoundTrip /\ [][NextRoundTrip]_vars

\* Two clients at once: two writes to the same path, their store calls
\* interleaved in every order.  The store's calls all succeed.
ConcData == {<<66>>, <<67, 68, 69>>}
ConcFileStore ==
    RunWrite(RunWrite(EmptyStore, PathF, 0, <<65, 65, 65, 65>>, 0),
             PathF, MAX_CHUNK_SIZE, <<65>>, 0)

InitConcurrent ==
    /\ store \in {EmptyStore, ConcFileStore}
    /\ slot = [s \in Slots |-> IdleSlot]
    /\ now = 1
    /\ nops = 0
    /\ faults = MaxFaults

\* A request is served in the lowest free slot
LowestFree(s) == Free(s) /\ \A s2 \in Slots : s2 < s => ~Free(s2)

NextConcurrent ==
    \/ \E s \in Slots, o \in Offsets \cup {MAX_CHUNK_SIZE - 1}, d \in ConcData :
         LowestFree(s) /\ StartWrite(s, PathF, o, Base64Encode(d))
    \/ \E s \in Slots : WriteSteps(s)

SpecConcurrent == InitConcurrent /\ [][NextConcurrent]_vars

-----------------------------------------------------------------------------
(* What the claims speak of *)

\* The parameters of the request r pass the checks at the head of its
\* handler: a path is given, the offset and the size are not negative
WellFormed(r) == r.path # NoPath /\ r.offset >= 0 /\ r.size >= 0

\* The request in slot s, one of kind op with such parameters, has been
\* answered
DoneOp(s, op) == slot[s].pc = "done" /\ slot[s].op = op /\ WellFormed(slot[s])

\* A regular file's record is stored at the path
IsFile(st, path) ==
    Has(st, MetadataKey(path)) /\ ~IsDirMode(st[MetadataKey(path)].m.mode)

IsDir(st, path) ==
    Has(st, MetadataKey(path)) /\ IsDirMode(st[MetadataKey(path)].m.mode)

FileSize(st, path) == st[MetadataKey(path)].m.size

\* The whole file as read(path, 0, size) returns it
FullRead(st, path) == RunRead(st, path, 0, FileSize(st, path))

\* The bytes of a stored chunk, as the store holds them and as the layer
\* reads them back
ChunkBytes(st, path, i) == Utf8Encode(st[ChunkKey(path, i)].s)

\* The chunk indices of the files that the requests reach
ChunkIndices == 0..((2 * MAX_CHUNK_SIZE + MaxLen) \div MAX_CHUNK_SIZE)

\* The chunk keys of a path that are in the store
ChunkKeysOf(st, path) == {k \in DOMAIN st : \E i \in ChunkIndices : k = ChunkKey(path, i)}

-----------------------------------------------------------------------------
(* C1..C10 *)

\* C1 (as claimed): after write(path, 0, D) on a fresh path, read(path, 0,
\* len(D)) returns exactly the bytes D.
C1_RoundTrip ==
    DoneOp(2, "read") => slot[2].status = 200 /\ slot[2].out = slot[1].data

\* C2 (as claimed): a write to an existing file changes only the bytes in
\* [offset, offset + len(data)): in the full read after the write, every byte
\* outside that range that the full read before the write showed is the same.
C2_PartialOverwritePreserves ==
    LET r == slot[1]
        before == FullRead(r.pre, r.path)
        after == FullRead(store, r.path)
    IN (DoneOp(1, "write") /\ r.status = 200 /\ r.size > 0 /\ IsFile(r.pre, r.path)) =>
         \A k \in 1..Len(before) :
            (k - 1 < r.offset \/ k - 1 >= r.offset + r.size) =>
               k <= Len(after) /\ after[k] = before[k]

\* n zero bytes
Zeros(n) == [k \in 1..n |-> 0]

\* C3 (as claimed): a read that lies inside a chunk that was never written,
\* below the file size, returns exactly size bytes, all zero.
C3_SparseReadZeroFilled ==
    LET r == slot[1]
    IN (/\ DoneOp(1, "read") /\ r.status = 200 /\ r.size > 0 /\ IsFile(store, r.path)
        /\ r.offset + r.size <= FileSize(store, r.path)
        /\ r.offset \div MAX_CHUNK_SIZE = (r.offset + r.size - 1) \div MAX_CHUNK_SIZE
        /\ ~Has(store, ChunkKey(r.path, r.offset \div MAX_CHUNK_SIZE)))
       => r.out = Zeros(r.size)

\* C4 (as claimed): once delete(path) has answered success for a file with
\* num_chunks = n, the store holds neither the file's metadata key nor any of
\* its chunk keys 0..n-1.
C4_CascadingDelete ==
    LET r == slot[1]
    IN (DoneOp(1, "delete") /\ r.status = 200 /\ IsFile(r.pre, r.path)) =>
         /\ ~Has(store, MetadataKey(r.path))
         /\ \A i \in 0..(r.pre[MetadataKey(r.path)].m.num_chunks - 1) :
               ~Has(store, ChunkKey(r.path, i))

\* C5: a delete of a directory whose store calls are answered fails with
\* "Directory not empty" when a key lies under path + "/", and succeeds,
\* removing the directory's metadata key and nothing else, when none does;
\* a delete of a directory that fails for any reason deletes nothing.
C5_DirectoryNotEmpty ==
    LET r == slot[1]
        children == KeysWithPrefix(r.pre, r.path \o <<"/">>)
        answered == r.error \notin {"Failed to check if directory is empty",
                                    "Failed to delete directory metadata"}
    IN (DoneOp(1, "delete") /\ r.found /\ IsDirMode(r.metadata.mode)) =>
         /\ (children # {} /\ answered) =>
               r.status = 400 /\ r.error = "Directory not empty"
         /\ (children = {} /\ answered) =>
               r.status = 200 /\ store = Del(r.pre, MetadataKey(r.path))
         /\ r.status # 200 => store = r.pre

\* C5's case: a directory with a key under it was asked to be deleted and the
\* request was answered "Directory not empty"
C5_Witness ==
    /\ DoneOp(1, "delete") /\ slot[1].found /\ IsDirMode(slot[1].metadata.mode)
    /\ KeysWithPrefix(slot[1].pre, slot[1].path \o <<"/">>) # {}
    /\ slot[1].status = 400 /\ slot[1].error = "Directory not empty"
    /\ store = slot[1].pre

\* C6: every file record in the store with size > 0 has
\* num_chunks = ceil(size / MAX_CHUNK_SIZE), whatever the writes and however
\* they interleave.
C6_MetadataInvariant ==
    \A k \in DOMAIN store :
       (store[k].kind = "json" /\ ~IsDirMode(store[k].m.mode) /\ store[k].m.size > 0) =>
          store[k].m.num_chunks * MAX_CHUNK_SIZE >= store[k].m.size
          /\ (store[k].m.num_chunks - 1) * MAX_CHUNK_SIZE < store[k].m.size

\* C6's case: two writes have interleaved and both have stored the record
C6_Witness ==
    /\ \A s \in Slots : DoneOp(s, "write") /\ slot[s].status = 200
    /\ \E s \in Slots : slot[s].pre # slot[3 - s].pre /\ slot[s].seq = 2
                        /\ ~Has(slot[s].pre, MetadataKey(PathF))
    /\ store[MetadataKey(PathF)].m.size > MAX_CHUNK_SIZE

\* C7 (as claimed): a write of k * MAX_CHUNK_SIZE bytes at offset 0 to a fresh
\* path leaves exactly the chunk keys 0..k-1, each of MAX_CHUNK_SIZE bytes,
\* and num_chunks = k.
C7_ChunkBoundaryExact ==
    LET r == slot[1]
        k == r.size \div MAX_CHUNK_SIZE
    IN (DoneOp(1, "write") /\ r.status = 200 /\ r.size > 0
          /\ r.size % MAX_CHUNK_SIZE = 0) =>
         /\ ChunkKeysOf(store, r.path) = {ChunkKey(r.path, i) : i \in 0..(k - 1)}
         /\ \A i \in 0..(k - 1) : Len(ChunkBytes(store, r.path, i)) = MAX_CHUNK_SIZE
         /\ store[MetadataKey(r.path)].m.num_chunks = k

\* C8 (as claimed): a successful write answers bytesWritten = len(data) and
\* has stored the record with size = max(oldSize, offset + len(data)).
C8_WriteResult ==
    LET r == slot[1]
        oldSize == IF Has(r.pre, MetadataKey(r.path)) THEN FileSize(r.pre, r.path) ELSE 0
    IN (DoneOp(1, "write") /\ r.status = 200) =>
         /\ r.bytesWritten = r.size
         /\ Has(store, MetadataKey(r.path))
         /\ FileSize(store, r.path) = Max(oldSize, r.offset + r.size)

\* C9 (as claimed): a write of zero-length data succeeds, gets and puts no
\* chunk, and leaves a metadata record at the path.
C9_EmptyWrite ==
    LET r == slot[1]
    IN (DoneOp(1, "write") /\ r.size = 0) =>
         /\ r.status = 200
         /\ r.gets = <<>> /\ r.puts = <<>>
         /\ Has(store, MetadataKey(r.path))

\* Two writes, and only these two, have been answered with success
BothWritten ==
    /\ nops = 2
    /\ \A s \in Slots : DoneOp(s, "write") /\ slot[s].status = 200 /\ slot[s].size > 0

\* The chunk indices a write touches
ChunkRange(r) == StartChunk(r)..EndChunk(r)

\* The store before the first of the two writes arrived
StoreBefore == slot[CHOOSE s \in Slots : slot[s].seq = 1].pre

\* The store after write a and then write b, each run alone
Serial(a, b) ==
    RunWrite(RunWrite(StoreBefore, a.path, a.offset, a.data, a.t),
             b.path, b.offset, b.data, b.t)

\* Chunk contents and file sizes of a store
Contents(st) ==
    [k \in DOMAIN st |-> IF st[k].kind = "json" THEN <<st[k].m.size>> ELSE st[k].s]

\* Chunk c holds the bytes of write r at every position of r's range in c
HoldsDataOf(st, r, c) ==
    /\ Has(st, ChunkKey(r.path, c))
    /\ \A g \in r.offset..(WriteEnd(r) - 1) :
          g \div MAX_CHUNK_SIZE = c =>
             LET bytes == ChunkBytes(st, r.path, c)
                 j == g - c * MAX_CHUNK_SIZE
             IN j + 1 <= Len(bytes) /\ bytes[j + 1] = r.data[g - r.offset + 1]

\* C10: nothing orders two writers of one path: when both hold a new version
\* of the same chunk neither put is held back, and once both have been answered every
\* chunk they put holds, whole, the bytes of one of the writers that put it
\* (the last put wins, the other writer's bytes in that chunk are gone) and
\* the stored record is the record of one of them.
C10_LastPutWins ==
    /\ ((\A s \in Slots : slot[s].pc = "w_writeChunk") /\ slot[1].i = slot[2].i) =>
          \A s \in Slots : ENABLED WriteWriteChunk(s)
    /\ BothWritten =>
         /\ \A c \in ChunkRange(slot[1]) \cup ChunkRange(slot[2]) :
               \E s \in Slots : c \in ChunkRange(slot[s]) /\ HoldsDataOf(store, slot[s], c)
         /\ \E s \in Slots : store[MetadataKey(PathF)].m = slot[s].metadata

\* C10's case, the lost update: two writes with overlapping chunk ranges have
\* both been answered with success and the store's contents are those of
\* neither serial order
C10_Witness ==
    /\ BothWritten
    /\ ChunkRange(slot[1]) \cap ChunkRange(slot[2]) # {}
    /\ Contents(store) # Contents(Serial(slot[1], slot[2]))
    /\ Contents(store) # Contents(Serial(slot[2], slot[1]))

-----------------------------------------------------------------------------
(* Failures of the store during a write *)

\* Two stores hold the same value, or nothing, under a key
SameAt(st1, st2, key) ==
    /\ Has(st1, key) <=> Has(st2, key)
    /\ Has(st1, key) => st1[key] = st2[key]

\* Two stores agree on every key outside a set
SameOutside(st1, st2, keys) ==
    \A key \in (DOMAIN st1 \cup DOMAIN st2) \ keys : SameAt(st1, st2, key)

\* The indices StartChunk(r)..(i - 1) in ascending order
IndicesBefore(r, i) == [k \in 1..(i - StartChunk(r)) |-> StartChunk(r) + k - 1]

\* The chunk the write r stores at index j when it finds the store st
ChunkWritten(st, r, j) ==
    TextValue(Utf8Decode(
        NewChunk(Utf8Encode(GetChunk(st, r.path, j, NoFault).chunkData), r.data, r.offset,
                 j, Max(0, j * MAX_CHUNK_SIZE - r.offset))))

\* C11: when the get or the put of chunk i fails during a write, the write is
\* answered with that error and has touched no index above i, the metadata
\* record is as it was, and the chunks below i that the write had put stay
\* as it put them; nothing else in the store changed.
C11_ChunkFailureStops ==
    LET r == slot[1]
        put == {ChunkKey(r.path, j) : j \in StartChunk(r)..(r.i - 1)}
    IN (DoneOp(1, "write") /\ r.fault \in {"getChunk", "writeChunk"}) =>
         /\ r.status = r.faultStatus
         /\ r.status \in StoreErrorStatuses
         /\ r.error = (IF r.fault = "getChunk" THEN "Failed to get chunk"
                       ELSE "Failed to write chunk")
         /\ r.i \in StartChunk(r)..EndChunk(r)
         /\ r.puts = IndicesBefore(r, r.i)
         /\ r.gets = IndicesBefore(r, IF r.fault = "getChunk" THEN r.i ELSE r.i + 1)
         /\ SameAt(store, r.pre, MetadataKey(r.path))
         /\ SameOutside(store, r.pre, put)
         /\ \A j \in StartChunk(r)..(r.i - 1) :
               Has(store, ChunkKey(r.path, j))
               /\ store[ChunkKey(r.path, j)] = ChunkWritten(r.pre, r, j)

\* C11's case: the put of a chunk failed after the write had stored an
\* earlier chunk, which is still in the store
C11_Witness ==
    /\ DoneOp(1, "write") /\ slot[1].fault = "writeChunk"
    /\ slot[1].i > StartChunk(slot[1])
    /\ ~SameAt(store, slot[1].pre, ChunkKey(slot[1].path, StartChunk(slot[1])))
    /\ slot[1].status = 503

\* C12: when every chunk put of a write succeeded and the metadata put
\* fails, the answer is an error that is none of the chunk errors, the chunks
\* are as the write put them and the metadata record is the old one (or
\* absent); nothing else in the store changed.
C12_MetadataFailureLeavesChunks ==
    LET r == slot[1]
        put == {ChunkKey(r.path, j) : j \in StartChunk(r)..EndChunk(r)}
    IN (DoneOp(1, "write") /\ r.fault = "writeMetadata") =>
         /\ r.status # 200
         /\ r.error = "Write succeeded but failed to update metadata"
         /\ r.error \notin {"Failed to get chunk", "Failed to write chunk"}
         /\ r.puts = IndicesBefore(r, EndChunk(r) + 1)
         /\ SameAt(store, r.pre, MetadataKey(r.path))
         /\ SameOutside(store, r.pre, put)
         /\ \A j \in StartChunk(r)..EndChunk(r) :
               Has(store, ChunkKey(r.path, j))
               /\ store[ChunkKey(r.path, j)] = ChunkWritten(r.pre, r, j)

\* C12's case: the metadata put of a write to a new path failed: the chunks
\* are in the store and no record is
C12_Witness ==
    /\ DoneOp(1, "write") /\ slot[1].fault = "writeMetadata"
    /\ ~Has(store, MetadataKey(slot[1].path))
    /\ \A j \in StartChunk(slot[1])..EndChunk(slot[1]) : Has(store, ChunkKey(slot[1].path, j))
    /\ EndChunk(slot[1]) > StartChunk(slot[1])

-----------------------------------------------------------------------------
(* Directories and missing paths in write and read *)

\* C13: a write of non-empty data to a path whose record is a directory
\* leaves the store as it was and puts no chunk, and when the record could be
\* fetched it is answered 400 "Path is a directory".
C13_WriteIsADirectory ==
    LET r == slot[1]
    IN (DoneOp(1, "write") /\ r.size > 0 /\ IsDir(r.pre, r.path)) =>
         /\ store = r.pre
         /\ r.puts = <<>> /\ r.gets = <<>>
         /\ r.fault = "" => (r.status = 400 /\ r.error = "Path is a directory")
         /\ r.status # 200

\* C13's case: a write of non-empty data to a directory was refused
C13_Witness ==
    /\ DoneOp(1, "write") /\ slot[1].size > 0 /\ IsDir(slot[1].pre, slot[1].path)
    /\ slot[1].status = 400 /\ slot[1].error = "Path is a directory"
    /\ slot[1].fault = ""

\* C14 (as claimed): a read whose store calls succeed, of any offset and any
\* size, 0 included, is answered 404 when the path has no metadata record and
\* 400 "Path is a directory" when the record is a directory.
C14_ReadNotFoundOrDirectory ==
    LET r == slot[1]
    IN (DoneOp(1, "read") /\ r.fault = "") =>
         /\ ~Has(r.pre, MetadataKey(r.path)) => r.status = 404
         /\ IsDir(r.pre, r.path) => (r.status = 400 /\ r.error = "Path is a directory")

\* C15 (as claimed): a read of an existing file that is answered 200 returns
\* nothing when offset >= file size and otherwise at most
\* min(size, fileSize - offset) bytes.
C15_ReadClipped ==
    LET r == slot[1]
        fileSize == FileSize(r.pre, r.path)
    IN (DoneOp(1, "read") /\ r.status = 200 /\ IsFile(r.pre, r.path)) =>
         /\ r.offset >= fileSize => r.out = <<>>
         /\ r.offset < fileSize => Len(r.out) <= Min(r.size, fileSize - r.offset)

-----------------------------------------------------------------------------
(* Two reads with the same arguments, one after the other, of a store that
   requests of the layer have left: directories, files of text and of
   binary data, a file with a hole.  Store calls may fail. *)

BinaryFileStore == RunWrite(EmptyStore, PathD, 0, <<255>>, 0)
HoleFileStore == RunWrite(EmptyStore, PathD, MAX_CHUNK_SIZE, <<65>>, 0)
ReadStores == SeqStores \cup {BinaryFileStore, HoleFileStore}

InitReadTwice ==
    /\ store \in ReadStores
    /\ slot = [s \in Slots |-> IdleSlot]
    /\ now = 1
    /\ nops = 0
    /\ faults = 0

ReadFirst ==
    /\ slot[1].pc = "idle"
    /\ \E p \in SeqPaths, o \in Offsets, n \in SeqSizes \cup {MAX_CHUNK_SIZE + 1} :
         StartRead(1, p, o, n)

ReadAgain ==
    /\ slot[1].pc = "done" /\ slot[2].pc = "idle"
    /\ StartRead(2, slot[1].path, slot[1].offset, slot[1].size)

NextReadTwice ==
    \/ ReadFirst
    \/ ReadAgain
    \/ \E s \in Slots : ReadSteps(s)

SpecReadTwice == InitReadTwice /\ [][NextReadTwice]_vars

\* C16: a read puts nothing and leaves every key of the store, the file's
\* record and its atime included, as it found it; and two reads with the
\* same arguments that are both answered 200 return the same bytes.
C16_ReadIdempotent ==
    /\ \A s \in Slots : slot[s].op = "read" =>
          /\ slot[s].puts = <<>>
          /\ store = slot[s].pre
    /\ (\A s \in Slots : DoneOp(s, "read") /\ slot[s].status = 200) =>
          slot[1].out = slot[2].out
    /\ (\A s \in Slots : DoneOp(s, "read") /\ slot[s].fault = "") =>
          slot[1].status = slot[2].status

\* C16's case: the second of two reads of a file has returned bytes
C16_Witness ==
    /\ \A s \in Slots : DoneOp(s, "read") /\ slot[s].status = 200
    /\ slot[2].out # <<>>
    /\ slot[2].gets # <<>>
    /\ slot[1].out = slot[2].out

-----------------------------------------------------------------------------
(* mkdir *)

\* The store answered every call of the mkdir request r
MkdirAnswered(r) ==
    r.error \notin {"Failed to check existing path", "Failed to create directory metadata"}

\* C17: mkdir of a path without a record is answered 201 and stores a
\* directory record; mkdir of a path that is a directory, the second of two
\* mkdir calls included, is answered 200 and leaves the store, and so the
\* directory's record, as it was.
C17_MkdirIdempotent ==
    LET r == slot[1]
        key == MetadataKey(r.path)
    IN (DoneOp(1, "mkdir") /\ r.path # Root /\ MkdirAnswered(r)) =>
         /\ ~Has(r.pre, key) =>
               /\ r.status = 201
               /\ IsDir(store, r.path)
               /\ SameOutside(store, r.pre, {key})
         /\ IsDir(r.pre, r.path) =>
               /\ r.status = 200 /\ r.error = ""
               /\ store = r.pre

\* C17's case: the second of two mkdir calls on a path was answered 200; the
\* record is the one the first call stored
C17_Witness ==
    /\ DoneOp(1, "mkdir") /\ slot[1].seq = 2 /\ slot[1].status = 200
    /\ IsDir(store, slot[1].path)
    /\ store[MetadataKey(slot[1].path)].m.ctime = 1
    /\ store = slot[1].pre

\* C18: mkdir of a path whose record is not a directory is answered 409 and
\* leaves the store as it was.
C18_MkdirConflict ==
    LET r == slot[1]
    IN (DoneOp(1, "mkdir") /\ IsFile(r.pre, r.path)) =>
         /\ store = r.pre
         /\ r.status # 200 /\ r.status # 201
         /\ MkdirAnswered(r) =>
               (r.status = 409 /\ r.error = "Path exists but is not a directory")

\* C18's case: mkdir of a file's path was refused with 409
C18_Witness ==
    /\ DoneOp(1, "mkdir") /\ IsFile(slot[1].pre, slot[1].path)
    /\ slot[1].status = 409
    /\ FileSize(store, slot[1].path) > 0

-----------------------------------------------------------------------------
(* GET /api/list: list/route.ts, lines 12-100 *)

PathA == <<"/", "a">>
PathASlash == <<"/", "a", "/">>
PathAX == <<"/", "a", "/", "x">>
PathAY == <<"/", "a", "/", "y">>
PathAYZ == <<"/", "a", "/", "y", "/", "z">>

\* line 26: path === "/" ? "/" : path.endsWith("/") ? path : `${path}/`
ListPrefix(path) ==
    IF path = Root THEN Root
    ELSE IF path[Len(path)] = "/" THEN path
    ELSE path \o <<"/">>

\* key.endsWith(suffix)
EndsWith(key, suffix) ==
    Len(key) >= Len(suffix)
    /\ SubSeq(key, Len(key) - Len(suffix) + 1, Len(key)) = suffix

\* name.includes("/")
IncludesSlash(name) == \E k \in 1..Len(name) : name[k] = "/"

\* relativePath.split('/')[0]
FirstPart(relativePath) ==
    IF IncludesSlash(relativePath)
    THEN SubSeq(relativePath, 1,
                (CHOOSE k \in 1..Len(relativePath) :
                    relativePath[k] = "/" /\ \A j \in 1..(k - 1) : relativePath[j] # "/") - 1)
    ELSE relativePath

\* key.substring(prefix.length)
After(key, prefix) == SubSeq(key, Len(prefix) + 1, Len(key))

\* What a store that honours delimiter "/" returns for a key: the key, or
\* the prefix up to and including the first delimiter after the list prefix
Folded(key, prefix) ==
    IF IncludesSlash(After(key, prefix))
    THEN prefix \o FirstPart(After(key, prefix)) \o <<"/">>
    ELSE key

\* GET /list?prefix=..&delimiter=/ with no marker: the first page.  Whether
\* the store folds the keys below a delimiter is the store's choice.
ListDelimited(st, prefix, folded) ==
    LET keys == IF folded THEN {Folded(k, prefix) : k \in KeysWithPrefix(st, prefix)}
                ELSE KeysWithPrefix(st, prefix)
        all == SortKeys(keys)
    IN SubSeq(all, 1, Min(PageSize, Len(all)))

\* A variant of the entry of an item that reports the metadata key of a
\* direct child as a directory
ItemEntryDir(key, prefix) ==
    LET none == [kind |-> "none", name |-> <<>>, isDir |-> FALSE]
        fullPath == SubSeq(key, 1, Len(key) - Len(METADATA_SUFFIX))
        name == After(fullPath, prefix)
        relativePath == After(key, prefix)
    IN IF prefix = Root /\ key = MetadataKey(Root) THEN none
       ELSE IF key = SubSeq(prefix, 1, Len(prefix) - 1) \o METADATA_SUFFIX THEN none
       ELSE IF EndsWith(key, METADATA_SUFFIX)
       THEN IF StartsWith(fullPath, prefix) /\ name # <<>> /\ ~IncludesSlash(name)
            THEN [kind |-> "entry", name |-> name, isDir |-> TRUE]
            ELSE none
       ELSE IF StartsWith(key, prefix)
       THEN IF IncludesSlash(relativePath) /\ FirstPart(relativePath) # <<>>
            THEN [kind |-> "entry", name |-> FirstPart(relativePath), isDir |-> TRUE]
            ELSE none
       ELSE none

\* lines 49-84: what one item adds to entries: nothing, a file entry for a
\* direct child's metadata key, or a directory entry for a key below a
\* further "/" that is no metadata key
ItemEntry(key, prefix) ==
    LET none == [kind |-> "none", name |-> <<>>, isDir |-> FALSE]
        fullPath == SubSeq(key, 1, Len(key) - Len(METADATA_SUFFIX))
        name == After(fullPath, prefix)
        relativePath == After(key, prefix)
    IN IF prefix = Root /\ key = MetadataKey(Root) THEN none
       ELSE IF key = SubSeq(prefix, 1, Len(prefix) - 1) \o METADATA_SUFFIX THEN none
       ELSE IF EndsWith(key, METADATA_SUFFIX)
       THEN IF StartsWith(fullPath, prefix) /\ name # <<>> /\ ~IncludesSlash(name)
            THEN [kind |-> "entry", name |-> name, isDir |-> FALSE]
            ELSE none
       ELSE IF StartsWith(key, prefix)
       THEN IF IncludesSlash(relativePath) /\ FirstPart(relativePath) # <<>>
            THEN [kind |-> "entry", name |-> FirstPart(relativePath), isDir |-> TRUE]
            ELSE none
       ELSE none

\* lines 45-85: the loop over data.items; processedPrefixes keeps a
\* directory name from being pushed twice
RECURSIVE ListEntries(_, _, _, _, _)
ListEntries(items, prefix, k, entries, processedPrefixes) ==
    IF k > Len(items) THEN entries
    ELSE LET e == ItemEntry(items[k], prefix)
             entry == [name |-> e.name, isDir |-> e.isDir]
         IN IF e.kind = "none" \/ (e.isDir /\ e.name \in processedPrefixes)
            THEN ListEntries(items, prefix, k + 1, entries, processedPrefixes)
            ELSE ListEntries(items, prefix, k + 1, Append(entries, entry),
                             IF e.isDir THEN processedPrefixes \cup {e.name}
                             ELSE processedPrefixes)

\* line 92: Array.from(new Map(entries.map(e => [e.name, e])).values()): a
\* name keeps the place of its first entry and the value of its last
RECURSIVE UniqueEntries(_, _)
UniqueEntries(entries, k) ==
    IF k > Len(entries) THEN <<>>
    ELSE IF \E j \in 1..(k - 1) : entries[j].name = entries[k].name
    THEN UniqueEntries(entries, k + 1)
    ELSE LET last == CHOOSE j \in k..Len(entries) :
                        /\ entries[j].name = entries[k].name
                        /\ \A i \in (j + 1)..Len(entries) : entries[i].name # entries[k].name
         IN <<entries[last]>> \o UniqueEntries(entries, k + 1)

\* lines 13-26: the path is required
StartList(s, path) ==
    /\ Free(s)
    /\ nops < MaxOps
    /\ nops' = nops + 1
    /\ LET r == [IdleSlot EXCEPT !.op = "list", !.path = path, !.seq = nops + 1,
                                 !.pre = store]
       IN slot' = [slot EXCEPT ![s] =
             IF path = NoPath THEN Respond(r, 400, "Path parameter is required")
             ELSE [r EXCEPT !.pc = "l_list"]]
    /\ UNCHANGED <<store, now, faults>>

\* lines 28-94: the one call of the store's /list, the entries, the response
ListCall(s) ==
    /\ slot[s].pc = "l_list"
    /\ \E fail \in FaultChoices, folded \in BOOLEAN :
         \E items \in Orders(ListDelimited(store, ListPrefix(slot[s].path), folded)) :
            LET r == slot[s]
                entries == ListEntries(items, ListPrefix(r.path), 1, <<>>, {})
            IN /\ faults' = IF fail # NoFault THEN faults + 1 ELSE faults
               /\ slot' = [slot EXCEPT ![s] =
                    IF fail # NoFault
                    THEN Respond([r EXCEPT !.fault = "list", !.faultStatus = fail], fail,
                                 "Failed to list keys")
                    ELSE Respond([r EXCEPT !.items = items, !.folded = folded,
                                           !.entries = UniqueEntries(entries, 1)],
                                 200, "")]
    /\ UNCHANGED <<store, now, nops>>

-----------------------------------------------------------------------------
(* Listings, one after the other, of a store that requests of the layer have
   left.  Store calls may fail. *)

\* /a/x and /a/y/z, each created by POST (mkdir): exactly the keys
\* /a/x.__meta__ and /a/y/z.__meta__
TwoKeyStore == RunMkdir(RunMkdir(EmptyStore, PathAX, 0), PathAYZ, 0)

\* /a and the children /a/0 .. /a/n, each created by POST (mkdir)
RECURSIVE ChildrenStore(_)
ChildrenStore(n) ==
    IF n < 0 THEN RunMkdir(EmptyStore, PathA, 0)
    ELSE RunMkdir(ChildrenStore(n - 1), PathA \o <<"/">> \o Decimal(n), 0)

\* One child more than a page of the store's /list holds
ManyChildrenStore == ChildrenStore(PageSize)

\* /a, the directory /a/y with the file /a/y/z in it, the file /a/x
TreeStore ==
    RunWrite(RunWrite(RunMkdir(RunMkdir(EmptyStore, PathA, 0), PathAY, 0),
                      PathAYZ, 0, <<66>>, 0),
             PathAX, 0, <<65>>, 0)

ListStores == {EmptyStore, TwoKeyStore, ManyChildrenStore, ChildrenStore(0), TreeStore}

InitList ==
    /\ store \in ListStores
    /\ slot = [s \in Slots |-> IdleSlot]
    /\ now = 1
    /\ nops = 0
    /\ faults = 0

NextList ==
    \/ \E p \in {NoPath, Root, PathA, PathASlash, PathAY} : StartList(1, p)
    \/ ListCall(1)

SpecList == InitList /\ [][NextList]_vars

\* The names of the direct children of a directory: the paths right under
\* it that have a metadata record
DirectChildren(st, path) ==
    {After(SubSeq(k, 1, Len(k) - Len(METADATA_SUFFIX)), ListPrefix(path)) :
        k \in {key \in KeysWithPrefix(st, ListPrefix(path)) :
                 /\ EndsWith(key, METADATA_SUFFIX)
                 /\ Len(key) > Len(ListPrefix(path)) + Len(METADATA_SUFFIX)
                 /\ ~IncludesSlash(After(key, ListPrefix(path)))}}

\* The entries of a listing, as a set
EntrySet(r) == {r.entries[k] : k \in 1..Len(r.entries)}

\* C19 (as claimed): on the store that holds exactly /a/x.__meta__ and
\* /a/y/z.__meta__, a listing of /a that is answered 200 has exactly the two
\* entries x (isDir false) and y (isDir true), in whatever order the store
\* enumerates.
C19_ListingDistinct ==
    LET r == slot[1]
    IN (DoneOp(1, "list") /\ r.status = 200 /\ r.pre = TwoKeyStore /\ r.path = PathA) =>
         /\ Len(r.entries) = 2
         /\ EntrySet(r) = {[name |-> <<"x">>, isDir |-> FALSE],
                           [name |-> <<"y">>, isDir |-> TRUE]}

\* C20 (as claimed): a listing that is answered 200 has an entry for every
\* direct child of the directory, however many pages the keys under the
\* prefix fill.
C20_ListingComplete ==
    LET r == slot[1]
    IN (DoneOp(1, "list") /\ r.status = 200) =>
         \A name \in DirectChildren(r.pre, r.path) :
            \E e \in EntrySet(r) : e.name = name

-----------------------------------------------------------------------------
(* The root path *)

\* C21: a delete or a mkdir of the root is answered 400 by the step that
\* starts it: the request never stands at a call of the store, and the store
\* is as it was before the request
C21_RootRejected ==
    LET r == slot[1]
    IN (r.op \in {"delete", "mkdir"} /\ r.path = Root)
       => /\ r.pc = "done"
          /\ r.status = 400
          /\ r.error = "Path parameter is required and cannot be root (/)"
          /\ store = r.pre

C21_Witness ==
    /\ DoneOp(1, "delete")
    /\ slot[1].path = Root
    /\ slot[1].status = 400
    /\ Has(store, MetadataKey(PathD))

-----------------------------------------------------------------------------
(* Deletes alone: one delete of a path, then the same delete again, over    *)
(* stores that hold a file, a file's chunks without its record, a file     *)
(* next to another path whose name begins with the file's chunk prefix,     *)
(* and an empty directory.                                                  *)
(* Up to DeleteFaults calls of the store fail.                              *)

\* "/f.chunks": a path of its own, beginning with PathF \o CHUNK_SUFFIX
PathFChunks == PathF \o CHUNK_SUFFIX \o <<"s">>

DelFileStore ==
    RunWrite(RunWrite(EmptyStore, PathF, 0, <<65, 65, 65>>, 0),
             PathF, MAX_CHUNK_SIZE, <<65>>, 0)
OrphanStore == Del(DelFileStore, MetadataKey(PathF))
NeighbourStore == RunWrite(DelFileStore, PathFChunks, 0, <<66>>, 0)
DelDirStore == RunMkdir(EmptyStore, PathF, 0)
DeleteStores == {EmptyStore, DelFileStore, OrphanStore, NeighbourStore, DelDirStore}

\* faults starts DeleteFaults below its bound
InitDelete ==
    /\ store \in DeleteStores
    /\ slot = [s \in Slots |-> IdleSlot]
    /\ now = 1
    /\ nops = 0
    /\ faults = MaxFaults - DeleteFaults

DeleteFirst ==
    /\ slot[1].pc = "idle"
    /\ \E p \in {PathF, PathFChunks} : StartDelete(1, p)

DeleteAgain ==
    /\ slot[1].pc = "done"
    /\ slot[2].pc = "idle"
    /\ StartDelete(2, slot[1].path)

NextDelete ==
    \/ DeleteFirst
    \/ DeleteAgain
    \/ DeleteSteps(1)
    \/ DeleteSteps(2)

SpecDelete == InitDelete /\ [][NextDelete]_vars

\* The keys of a store that begin with the chunk prefix of the path
ChunkPrefixed(st, path) == {k \in DOMAIN st : StartsWith(k, ChunkPrefix(path))}

\* C22: with no failing store call, a delete of a path that has no record
\* answers 200 and leaves no key under the path's chunk prefix; and a second
\* delete of a file, after a first that answered 200, answers 200 too and
\* leaves the store as it found it
C22_DeleteToleratesAbsence ==
    /\ \A s \in Slots :
         LET r == slot[s]
         IN (DoneOp(s, "delete") /\ r.fault = "" /\ ~Has(r.pre, MetadataKey(r.path)))
            => /\ r.status = 200
               /\ ChunkPrefixed(store, r.path) = {}
               /\ ~Has(store, MetadataKey(r.path))
    /\ (DoneOp(1, "delete") /\ DoneOp(2, "delete")
          /\ slot[1].fault = "" /\ slot[2].fault = ""
          /\ IsFile(slot[1].pre, slot[1].path))
       => /\ slot[1].status = 200
          /\ slot[2].status = 200
          /\ store = slot[2].pre

C22_Witness ==
    /\ DoneOp(1, "delete") /\ DoneOp(2, "delete")
    /\ slot[1].fault = "" /\ slot[2].fault = ""
    /\ IsFile(slot[1].pre, PathF)
    /\ ChunkPrefixed(slot[1].pre, PathF) # {}
    /\ Len(slot[2].keysToDelete) = 1
    /\ slot[2].status = 200

\* C23 (as claimed): a request in which a call of the store failed is not
\* answered with a success; in particular a delete whose scan for chunk keys
\* failed does not answer 200 while keys under the chunk prefix remain
C23_StoreFailureReturned ==
    \A s \in Slots :
      LET r == slot[s]
      IN (r.pc = "done" /\ r.fault # "")
         => /\ r.status >= 400
            /\ r.error # ""
            /\ ~(r.op = "delete" /\ r.listFailed /\ r.status = 200
                   /\ ChunkPrefixed(store, r.path) # {})

\* C24 (as claimed): when deletions of a delete's keys failed, the answer
\* carries the error of the deletion that failed first in time; every
\* deletion that was issued has completed, and the keys whose deletion
\* succeeded are gone from the store
C24_FirstFailureInTime ==
    \A s \in Slots :
      LET r == slot[s]
      IN (DoneOp(s, "delete") /\ r.failedFirst # 0)
         => /\ r.status \in StoreErrorStatuses
            /\ FirstError(r.results) = r.failedFirst
            /\ r.status = r.results[r.failedFirst].status
            /\ \A k \in 1..Len(r.results) :
                 /\ r.results[k] # Pending
                 /\ ~r.results[k].error => ~Has(store, r.keysToDelete[k])

-----------------------------------------------------------------------------
(* GET /api/metadata: metadata/route.ts, lines 5-60 *)

\* lines 6-18: the path is required; the key of the record
StartMetadata(s, path) ==
    /\ Free(s)
    /\ nops < MaxOps
    /\ nops' = nops + 1
    /\ LET r == [IdleSlot EXCEPT !.op = "metadata", !.path = path,
                                 !.seq = nops + 1, !.pre = store]
       IN slot' = [slot EXCEPT ![s] =
             IF path = NoPath THEN Respond(r, 400, "Path parameter is required")
             ELSE [r EXCEPT !.pc = "g_getRecord"]]
    /\ UNCHANGED <<store, now, faults>>

\* lines 21-54: the record is fetched, parsed and returned as it is stored;
\* every failure of the call, a 404 included, is answered with its status
MetadataGetRecord(s) ==
    /\ slot[s].pc = "g_getRecord"
    /\ \E fail \in FaultChoices :
         LET r == slot[s]
             key == MetadataKeyRoot(r.path)
         IN /\ faults' = IF fail # NoFault THEN faults + 1 ELSE faults
            /\ slot' = [slot EXCEPT ![s] =
                 IF fail # NoFault
                 THEN Respond([r EXCEPT !.fault = "getMetadata", !.faultStatus = fail], fail,
                              "Failed to get metadata")
                 ELSE IF ~Has(store, key) THEN Respond(r, 404, "Failed to get metadata")
                 ELSE Respond([r EXCEPT !.metadata = store[key].m, !.found = TRUE],
                              200, "")]
    /\ UNCHANGED <<store, now, nops>>

\* A file whose record was stored without num_chunks
LegacyStore ==
    Put(FileStore, MetadataKey(PathD),
        JsonValue([FileStore[MetadataKey(PathD)].m EXCEPT !.num_chunks = -1]))

MetadataStores == {EmptyStore, DirStore, DirChildStore, FileStore, LegacyStore}

InitMetadata ==
    /\ store \in MetadataStores
    /\ slot = [s \in Slots |-> IdleSlot]
    /\ now = 1
    /\ nops = 0
    /\ faults = 0

NextMetadata ==
    \/ \E p \in {NoPath, Root, PathD, PathDG, PathF} : StartMetadata(1, p)
    \/ MetadataGetRecord(1)

SpecMetadata == InitMetadata /\ [][NextMetadata]_vars

\* C25 (as claimed): GET /metadata of a record stored with size > 0 and no
\* num_chunks answers with num_chunks = ceil(size / MAX_CHUNK_SIZE), and the
\* store is as it was
C25_MetadataNumChunks ==
    LET r == slot[1]
        key == MetadataKeyRoot(r.path)
    IN (DoneOp(1, "metadata") /\ r.status = 200
          /\ store[key].m.size > 0 /\ store[key].m.num_chunks = -1)
       => /\ r.metadata.num_chunks = Ceil(store[key].m.size, MAX_CHUNK_SIZE)
          /\ store = r.pre

\* C26 (as claimed): a delete of a path touches no key but the path's record
\* and the path's own chunk keys path.chunk<i>: every other key of the store
\* is as it was, also a key of another path whose name begins with the
\* path's chunk prefix
C26_OwnKeysOnly ==
    \A s \in Slots :
      LET r == slot[s]
          own == {MetadataKey(r.path)} \cup ChunkKeysOf(r.pre, r.path)
      IN (r.op = "delete" /\ r.pc # "idle") => SameOutside(r.pre, store, own)

-----------------------------------------------------------------------------
(* Writes alone: writes to one path, one after the other, over stores that  *)
(* hold nothing, the file, the file next to another path, and the file with *)
(* a record of another mode and owner.                                      *)

WriteData == {<<66>>, <<67, 68, 69>>, <<255>>}

\* The file with a record as another client of the store has left it
ForeignStore ==
    Put(DelFileStore, MetadataKey(PathF),
        JsonValue([DelFileStore[MetadataKey(PathF)].m EXCEPT !.mode = 33261, !.uid = 0,
                                                             !.gid = 5]))

WriteStores == {EmptyStore, DelFileStore, NeighbourStore, ForeignStore}

InitWrite ==
    /\ store \in WriteStores
    /\ slot = [s \in Slots |-> IdleSlot]
    /\ now = 1
    /\ nops = 0
    /\ faults = 0

NextWrite ==
    \/ Tick
    \/ \E o \in Offsets \cup {MAX_CHUNK_SIZE - 1}, d \in WriteData :
         StartWrite(1, PathF, o, Base64Encode(d))
    \/ WriteSteps(1)

SpecWrite == InitWrite /\ [][NextWrite]_vars

\* The size of the record stored at a path, 0 when there is none
StoredSize(st, path) ==
    IF Has(st, MetadataKey(path)) THEN st[MetadataKey(path)].m.size ELSE 0

\* The indices lo..(lo + n - 1) in ascending order
Ascending(lo, n) == [k \in 1..n |-> lo + k - 1]

\* C27: within a write the chunk indices are got and put in ascending order
\* from the first index of the range, the get of an index before its put;
\* the record is as it was until every chunk of the range has been put, the
\* put of the record comes last, and the stored size never exceeds the larger
\* of its old value and the end of the last chunk put
C27_WriteOrder ==
    LET r == slot[1]
        first == r.offset \div MAX_CHUNK_SIZE
        last == (r.offset + r.size - 1) \div MAX_CHUNK_SIZE
        all == Ascending(first, last - first + 1)
        covered == (first + Len(r.puts)) * MAX_CHUNK_SIZE
    IN (r.op = "write" /\ r.size > 0) =>
         /\ r.puts = Ascending(first, Len(r.puts))
         /\ r.gets = Ascending(first, Len(r.gets))
         /\ Len(r.puts) <= Len(r.gets)
         /\ Len(r.gets) <= Len(r.puts) + 1
         /\ Len(r.gets) <= Len(all)
         /\ r.pc = "w_writeChunk" => Len(r.gets) = Len(r.puts) + 1
         /\ r.pc \in {"w_getChunk", "w_writeMetadata"} => Len(r.gets) = Len(r.puts)
         /\ r.pc = "w_writeMetadata" => r.puts = all
         /\ ~SameAt(r.pre, store, MetadataKey(r.path))
              => /\ r.puts = all
                 /\ r.pc = "done"
                 /\ r.status = 200
         /\ StoredSize(store, r.path) <= Max(StoredSize(r.pre, r.path), covered)

C27_Witness ==
    /\ DoneOp(1, "write")
    /\ slot[1].status = 200
    /\ Len(slot[1].puts) = 2
    /\ StoredSize(store, PathF) > StoredSize(slot[1].pre, PathF)

\* C28: a write of non-empty data puts chunk keys of its path at indices of
\* floor(offset / MAX_CHUNK_SIZE) .. floor((offset + len - 1) / MAX_CHUNK_SIZE)
\* only, and the path's record; every other key of the store is as it was, and
\* after a write answered 200 each of those keys is in the store
C28_WriteFrame ==
    LET r == slot[1]
        first == r.offset \div MAX_CHUNK_SIZE
        last == (r.offset + r.size - 1) \div MAX_CHUNK_SIZE
        keys == {ChunkKey(r.path, j) : j \in first..last} \cup {MetadataKey(r.path)}
    IN (r.op = "write" /\ r.size > 0) =>
         /\ \A k \in 1..Len(r.puts) : r.puts[k] \in first..last
         /\ SameOutside(r.pre, store, keys)
         /\ (r.pc = "done" /\ r.status = 200) => keys \subseteq DOMAIN store

C28_Witness ==
    /\ DoneOp(1, "write")
    /\ slot[1].status = 200
    /\ slot[1].offset = MAX_CHUNK_SIZE
    /\ Has(slot[1].pre, ChunkKey(PathF, 0))
    /\ Has(slot[1].pre, MetadataKey(PathFChunks))
    /\ ~SameAt(slot[1].pre, store, ChunkKey(PathF, 1))

\* C29: a write answered 200 leaves mode, uid, gid and ctime of an existing
\* file's record as they were and sets mtime and atime to the time of the
\* write, the second r.t it read on the clock, which is not after the
\* present one; the write that creates the file sets ctime to that time too,
\* with the default mode and owner
C29_WriteKeepsOwnerAndCtime ==
    LET r == slot[1]
        old == r.pre[MetadataKey(r.path)].m
        new == store[MetadataKey(r.path)].m
    IN (DoneOp(1, "write") /\ r.status = 200 /\ r.size > 0) =>
         /\ new.mtime = r.t /\ new.atime = r.t
         /\ r.t \in 1..now
         /\ IF Has(r.pre, MetadataKey(r.path))
            THEN /\ new.mode = old.mode /\ new.uid = old.uid /\ new.gid = old.gid
                 /\ new.ctime = old.ctime
            ELSE /\ new.mode = DEFAULT_FILE_MODE /\ new.uid = 1000 /\ new.gid = 1000
                 /\ new.ctime = r.t

C29_Witness ==
    /\ DoneOp(1, "write")
    /\ slot[1].status = 200
    /\ Has(slot[1].pre, MetadataKey(PathF))
    /\ slot[1].pre[MetadataKey(PathF)].m.mode = 33261
    /\ store[MetadataKey(PathF)].m.mtime > store[MetadataKey(PathF)].m.ctime

\* The bytes lo..(hi - 1) (counted from 0) of a byte sequence
Bytes(b, lo, hi) == [k \in 1..(hi - lo) |-> b[lo + k]]

\* C30 (as claimed): after the put of a chunk by a write, with e the length
\* of the existing chunk, s and w the start and the end of the write in the
\* chunk, when s > e or e > w: the stored chunk has length max(e, w) and
\* holds the data in [s, w); if s > e it holds the old bytes in [0, e) and
\* zeros in [e, s); if e > w it holds the old bytes in [w, e)
C30_SparseWithinChunk ==
    LET r == slot[1]
        j == r.i - 1
        e == Len(r.existingChunk)
        s == Max(0, r.offset - j * MAX_CHUNK_SIZE)
        w == Min(MAX_CHUNK_SIZE, r.offset + r.size - j * MAX_CHUNK_SIZE)
        taken == r.currentWriteOffset - (w - s)
        stored == ChunkBytes(store, r.path, j)
    IN (r.op = "write" /\ r.pc \in {"w_getChunk", "w_writeMetadata"} /\ r.puts # <<>>
          /\ (s > e \/ e > w)) =>
         /\ Len(stored) = Max(e, w)
         /\ Bytes(stored, s, w) = Bytes(r.data, taken, taken + (w - s))
         /\ s > e => /\ Bytes(stored, 0, e) = r.existingChunk
                     /\ Bytes(stored, e, s) = Zeros(s - e)
         /\ e > w => Bytes(stored, w, e) = Bytes(r.existingChunk, w, e)

-----------------------------------------------------------------------------
(* C31..C40 *)

\* The byte of a file at offset p as its chunks give it: the byte stored at
\* that place of chunk p div MAX_CHUNK_SIZE, zero where the chunk is absent
\* or ends before it
LogicalByte(st, path, p) ==
    LET i == p \div MAX_CHUNK_SIZE
        k == p % MAX_CHUNK_SIZE
    IN IF Has(st, ChunkKey(path, i)) /\ k < Len(ChunkBytes(st, path, i))
       THEN ChunkBytes(st, path, i)[k + 1]
       ELSE 0

\* The bytes of chunk i of a path that the store holds, 0 for none
StoredLen(st, path, i) ==
    IF Has(st, ChunkKey(path, i)) THEN Len(ChunkBytes(st, path, i)) ELSE 0

\* The range of a read holds a place no chunk covers and, after it, a place
\* a chunk covers: the first place of the range that lies beyond the stored
\* bytes of its chunk comes before the last place that lies within them
SpansHole(st, path, offset, size) ==
    LET last == offset + size - 1
        chunks == (offset \div MAX_CHUNK_SIZE)..(last \div MAX_CHUNK_SIZE)
        from(i) == Max(offset, i * MAX_CHUNK_SIZE)
        to(i) == Min(last, (i + 1) * MAX_CHUNK_SIZE - 1)
        gap(i) == Max(from(i), i * MAX_CHUNK_SIZE + StoredLen(st, path, i))
        end(i) == Min(to(i), i * MAX_CHUNK_SIZE + StoredLen(st, path, i) - 1)
    IN \E i, j \in chunks :
          /\ gap(i) <= to(i)
          /\ end(j) >= from(j)
          /\ gap(i) < end(j)

\* C31 (as claimed): a read below the file size whose range spans a hole and
\* written bytes after it returns, at every position p of its output, the
\* byte of the file at offset + p: zeros for the hole, the written bytes at
\* their own offsets
C31_ReadLogicalPositions ==
    LET r == slot[1]
    IN (/\ DoneOp(1, "read") /\ r.status = 200 /\ r.size > 0 /\ IsFile(store, r.path)
        /\ r.offset + r.size <= FileSize(store, r.path)
        /\ SpansHole(store, r.path, r.offset, r.size))
       => /\ Len(r.out) = r.size
          /\ \A p \in 0..(r.size - 1) :
               r.out[p + 1] = LogicalByte(store, r.path, r.offset + p)

\* Reads of a file whose record carries a num_chunks below
\* ceil(size / MAX_CHUNK_SIZE), or none at all
StaleStore ==
    Put(FileStore, MetadataKey(PathD),
        JsonValue([FileStore[MetadataKey(PathD)].m EXCEPT !.num_chunks = 1]))

InitReadStale ==
    /\ store \in {StaleStore, LegacyStore}
    /\ slot = [s \in Slots |-> IdleSlot]
    /\ now = 1
    /\ nops = 0
    /\ faults = 0

NextReadStale ==
    \/ \E p \in SeqPaths, o \in Offsets \cup {MAX_CHUNK_SIZE - 1}, n \in SeqSizes :
         StartRead(1, p, o, n)
    \/ ReadSteps(1)

SpecReadStale == InitReadStale /\ [][NextReadStale]_vars

\* C32 (as claimed): a read, answered 200, of a file whose record has a
\* num_chunks below ceil(size / MAX_CHUNK_SIZE) gets every chunk index of its
\* range and returns the bytes of the range
C32_ReadRecomputesNumChunks ==
    LET r == slot[1]
        m == store[MetadataKey(r.path)].m
        first == r.offset \div MAX_CHUNK_SIZE
        last == (r.offset + r.size - 1) \div MAX_CHUNK_SIZE
    IN (/\ DoneOp(1, "read") /\ r.status = 200 /\ r.size > 0 /\ IsFile(store, r.path)
        /\ r.offset + r.size <= m.size
        /\ m.num_chunks # -1 /\ m.num_chunks < Ceil(m.size, MAX_CHUNK_SIZE))
       => /\ r.gets = Ascending(first, last - first + 1)
          /\ Len(r.out) = r.size
          /\ \A p \in 0..(r.size - 1) :
               r.out[p + 1] = LogicalByte(store, r.path, r.offset + p)

\* C33: in a listing answered 200, a direct child whose metadata key the
\* store returned, and below which the store holds no key, is reported with
\* isDir false and not with isDir true, whatever its record denotes; the
\* listing of /a that holds the directory /a/0 alone is {0, isDir false}
C33_LazyClassification ==
    LET r == slot[1]
        prefix == ListPrefix(r.path)
    IN (DoneOp(1, "list") /\ r.status = 200) =>
         /\ \A k \in 1..Len(r.items) :
              LET key == r.items[k]
                  name == After(SubSeq(key, 1, Len(key) - Len(METADATA_SUFFIX)), prefix)
              IN (/\ EndsWith(key, METADATA_SUFFIX)
                  /\ key # MetadataKeyRoot(r.path)
                  /\ key # SubSeq(prefix, 1, Len(prefix) - 1) \o METADATA_SUFFIX
                  /\ name # <<>> /\ ~IncludesSlash(name)
                  /\ KeysWithPrefix(store, prefix \o name \o <<"/">>) = {})
                 => /\ [name |-> name, isDir |-> FALSE] \in EntrySet(r)
                    /\ [name |-> name, isDir |-> TRUE] \notin EntrySet(r)
         /\ (store = ChildrenStore(0) /\ r.path = PathA)
              => r.entries = <<[name |-> <<"0">>, isDir |-> FALSE]>>

C33_Witness ==
    /\ DoneOp(1, "list")
    /\ slot[1].status = 200
    /\ slot[1].path = PathA
    /\ store = ChildrenStore(0)
    /\ IsDir(store, PathA \o <<"/", "0">>)
    /\ slot[1].entries = <<[name |-> <<"0">>, isDir |-> FALSE]>>

\* C34 (as claimed): after a write answered 200 that starts at offset 0
\* with data shorter than the file, the record's size is the length of the
\* data and a read of the whole file returns the data alone
C34_WriteTruncates ==
    LET r == slot[1]
    IN (/\ DoneOp(1, "write") /\ r.status = 200 /\ r.offset = 0 /\ r.size > 0
        /\ IsFile(r.pre, r.path)
        /\ r.size < FileSize(r.pre, r.path))
       => /\ FileSize(store, r.path) = r.size
          /\ FullRead(store, r.path) = r.data

\* Two writes of one byte, one after the other, to paths that hold the
\* suffixes themselves, at the chunk indices 0, 1 and 10.  The store's calls
\* all succeed.
KeyPaths ==
    {PathF, PathF \o CHUNK_SUFFIX, PathF \o CHUNK_SUFFIX \o <<"1">>,
     PathF \o METADATA_SUFFIX, PathF \o CHUNK_SUFFIX \o <<"0">> \o METADATA_SUFFIX}

KeyOffsets == {0, MAX_CHUNK_SIZE, 10 * MAX_CHUNK_SIZE}

InitKeys ==
    /\ store = EmptyStore
    /\ slot = [s \in Slots |-> IdleSlot]
    /\ now = 1
    /\ nops = 0
    /\ faults = MaxFaults

KeysFirst ==
    /\ slot[1].pc = "idle"
    /\ \E p \in KeyPaths, o \in KeyOffsets : StartWrite(1, p, o, Base64Encode(<<65>>))

KeysSecond ==
    /\ slot[1].pc = "done"
    /\ slot[2].pc = "idle"
    /\ \E p \in KeyPaths, o \in KeyOffsets : StartWrite(2, p, o, Base64Encode(<<66>>))

NextKeys ==
    \/ KeysFirst
    \/ KeysSecond
    \/ WriteSteps(1)
    \/ WriteSteps(2)

SpecKeys == InitKeys /\ [][NextKeys]_vars

\* C35: for the paths P, Q and the chunk indices i, j of two writes, equal
\* chunk keys mean P = Q and i = j, equal metadata keys mean P = Q, and no
\* chunk key is a metadata key; so the second write, unless it is to the same
\* path and index, leaves the chunk and the record of the first as they were
C35_KeysCollisionFree ==
    LET P == slot[1].path
        Q == slot[2].path
        i == slot[1].offset \div MAX_CHUNK_SIZE
        j == slot[2].offset \div MAX_CHUNK_SIZE
    IN (slot[1].op = "write" /\ slot[2].op = "write") =>
         /\ ChunkKey(P, i) = ChunkKey(Q, j) => (P = Q /\ i = j)
         /\ MetadataKey(P) = MetadataKey(Q) => P = Q
         /\ MetadataKeyRoot(P) = MetadataKeyRoot(Q) => P = Q
         /\ ChunkKey(P, i) # MetadataKey(Q)
         /\ ChunkKey(Q, j) # MetadataKey(P)
         /\ ~(P = Q /\ i = j)
              => SameAt(slot[2].pre, store, ChunkKey(P, i))
         /\ P # Q => SameAt(slot[2].pre, store, MetadataKey(P))

C35_Witness ==
    /\ DoneOp(1, "write") /\ slot[1].status = 200
    /\ DoneOp(2, "write") /\ slot[2].status = 200
    /\ slot[1].path = PathF /\ slot[1].offset = 10 * MAX_CHUNK_SIZE
    /\ slot[2].path = PathF \o CHUNK_SUFFIX \o <<"1">> /\ slot[2].offset = 0
    /\ Cardinality(DOMAIN store) = 4

\* C36 (as claimed): in every state that writes reach from a store whose
\* chunks have at most MAX_CHUNK_SIZE bytes, every stored chunk has at most
\* MAX_CHUNK_SIZE bytes
C36_ChunkLengthBounded ==
    \A k \in DOMAIN store :
       store[k].kind = "text" => Len(Utf8Encode(store[k].s)) <= MAX_CHUNK_SIZE

\* The entries that the listing makes of items in a given order, as a set
EntriesOf(items, prefix) ==
    LET u == UniqueEntries(ListEntries(items, prefix, 1, <<>>, {}), 1)
    IN {u[k] : k \in 1..Len(u)}

\* C37 (as claimed): a listing answered 200 has no two entries of one name,
\* and its set of entries is the one that every other order of the same
\* items gives
C37_ListingOrderIndependent ==
    LET r == slot[1]
    IN (DoneOp(1, "list") /\ r.status = 200) =>
         /\ \A a, b \in 1..Len(r.entries) :
              r.entries[a].name = r.entries[b].name => a = b
         /\ \A o \in Orders(r.items) :
              EntriesOf(o, ListPrefix(r.path)) = EntrySet(r)

\* C38 (as claimed): between the requests of a run of writes, mkdirs and
\* deletes in which no call of the store failed, every stored chunk of index
\* i and of L bytes is a chunk of a path that has a regular file's record
\* with size >= i * MAX_CHUNK_SIZE + L
C38_MetadataCoversChunks ==
    (faults = 0 /\ slot[1].pc \in {"idle", "done"}) =>
       \A k \in DOMAIN store :
          store[k].kind = "text" =>
             \E path \in SeqPaths, i \in ChunkIndices :
                /\ k = ChunkKey(path, i)
                /\ IsFile(store, path)
                /\ FileSize(store, path) >= i * MAX_CHUNK_SIZE + Len(ChunkBytes(store, path, i))

-----------------------------------------------------------------------------
(* Two clients at once on a directory and a path in it: a delete or a mkdir *)
(* beside a write or a mkdir, their store calls interleaved in every order. *)
(* The store's calls all succeed.                                           *)

InitRace ==
    /\ store \in {EmptyStore, DirStore}
    /\ slot = [s \in Slots |-> IdleSlot]
    /\ now = 1
    /\ nops = 0
    /\ faults = MaxFaults

RaceDelete ==
    /\ slot[1].pc = "idle"
    /\ StartDelete(1, PathD)

RaceMkdir ==
    /\ slot[1].pc = "idle"
    /\ StartMkdir(1, PathDG)

RaceWriteChild ==
    /\ slot[2].pc = "idle"
    /\ \E d \in ConcData : StartWrite(2, PathDG, 0, Base64Encode(d))

RaceMkdirChild ==
    /\ slot[2].pc = "idle"
    /\ StartMkdir(2, PathDG)

NextRace ==
    \/ Tick
    \/ RaceDelete
    \/ RaceMkdir
    \/ RaceWriteChild
    \/ RaceMkdirChild
    \/ DeleteSteps(1)
    \/ MkdirSteps(1)
    \/ WriteSteps(2)
    \/ MkdirSteps(2)

SpecRace == InitRace /\ [][NextRace]_vars

\* C39 (as claimed): there is no state in which a delete of a directory has
\* answered 200, the directory's record is gone, and a key that a write or a
\* mkdir started before the delete has created lies under the directory
C39_DirectoryDeleteRace ==
    ~(/\ DoneOp(1, "delete") /\ slot[1].status = 200
      /\ IsDir(slot[1].pre, slot[1].path)
      /\ ~Has(store, MetadataKey(slot[1].path))
      /\ slot[2].op \in {"write", "mkdir"}
      /\ slot[2].seq < slot[1].seq
      /\ \E k \in DOMAIN store :
            /\ StartsWith(k, DirPrefix(slot[1].path))
            /\ ~Has(slot[1].pre, k))

\* C40 (as claimed): in no state does a path have a directory's record
\* while chunk keys of the path are in the store
C40_NoDirectoryWithChunks ==
    \A path \in SeqPaths : ~(IsDir(store, path) /\ ChunkKeysOf(store, path) # {})

=============================================================================
